---- MODULE Spec2Model ----
(***************************************************************************)
(* Musical Marble Drop: the pixel-accurate collision-shape pipeline of     *)
(* src/public/game.js (the same code is in src/game.js and                 *)
(* src/unnamed/part_000).                                                  *)
(*                                                                         *)
(* A raster is a record [w, h, data] whose data maps the pixel index       *)
(* y * w + x to a record [r, g, b, a]; the code's ImageData holds the same *)
(* four bytes at (y * w + x) * 4.                                          *)
(***************************************************************************)
EXTENDS Integers, Sequences, FiniteSets, TLC

VARIABLES
    image,       \* the raster handed to keyWhiteToAlpha (the decoded <img>)
    tolerance,   \* options.tolerance of the last keyWhiteToAlpha call
    imageCache,  \* the canvas keyWhiteToAlpha returned, NoCanvas before it ran
    sprite,              \* the canvas handed to createAccurateImageBody
    forceCollisionMode,  \* "auto", "alpha" or "rgb" (keys O, A, B)
    lastCollisionGrid,   \* the grid of the last body build, NoGrid before it
    body,                \* the body of the last build, NoBody before it
    probe,               \* the last isNonWhitePixel call and its result
    traced,              \* the last traceVerticesFromCanvas call's result
    path,                \* the points handed to douglasPeucker
    pathTolerance,       \* the tolerance handed to douglasPeucker
    reduced,             \* the last douglasPeucker call's result
    loadStatus,     \* per image name: "unrequested", "loading", "cached", "failed"
    loggedErrors,   \* the image names whose load failure was logged
    timers,         \* the polling loops whose setTimeout is armed
    polls,          \* the re-arms of the polling timers, counted modulo MaxPolls + 1
    gameObjects,    \* this.gameObjects, in push order
    game,           \* this.marbles, score, targetMarbleCount, gameOver, phase
    nextMarble,     \* the number the next spawned marble gets
    respawnTimers,  \* the deficits of the armed respawn timers, in arming order
    cupCalls,       \* how often marbleInCup was called
    escaped,        \* an exception left a handler uncaught
    walk,           \* the last mooreNeighborhoodTrace call: its start and result
    isDragging,  \* this.isDragging
    isRotating,  \* this.isRotating
    dragTarget,  \* the id of this.dragTarget, 0 for null
    deletePopover,  \* the id of the object the delete popover asks about, 0 for none
    world,  \* the ids of the bodies in the physics world
    bodyGameObject,  \* per body id, the id of the object body.gameObject points to
    nextBody,  \* the id the next body (and the object made with it) gets
    removedObjects,  \* the objects deleteObject spliced out, still referenced
    lastRebuild, \* the last rebuildAllImageCollisions call: the images it skipped
    sceneLayout,  \* what fetch of sceneLayout.json gives: its status and its objects
    savedScene,  \* this.gameObjects when saveSceneLayout last ran
    started,  \* "no" before loadSceneLayout, "loaded" after it, "edited" after a drag
    loadResult,  \* "none", "layout" or "default" (createDefaultScene ran)
    throwingImages, \* the images whose body synthesis throws
    calls, \* the createGeneratedObject calls, in call order: where each stands, what it added
    request,  \* the last request to /api/generate-image and what the model did for it
    response, \* the answer to it: status, whether it has an imageUrl, the model calls
    cacheKeys,  \* Array.from(this.imageCache.keys()): the cached names in the order they were set
    placedFolderImages,  \* this.placedFolderImages
    imageCupObj,  \* whether this.imageCupObj is set
    attempts,  \* the attempts of the interval of scheduleFolderImagePlacement
    interval,  \* "none" before scheduleFolderImagePlacement, then "armed", then "cleared"
    canvasWidth  \* this.canvas.width

keyVars == <<image, tolerance, imageCache>>
gridVars == <<sprite, forceCollisionMode, lastCollisionGrid, body>>
simplifyVars == <<path, pathTolerance, reduced>>
outlineVars == <<traced, simplifyVars>>
\* What the collision pipeline (keying, body building, the classifier) never
\* touches.
loadVars == <<loadStatus, loggedErrors, timers, polls>>
marbleVars == <<game, nextMarble, respawnTimers, cupCalls>>
buildVars == <<gameObjects, escaped>>
sceneVars == <<loadVars, marbleVars, buildVars>>
walkVars == <<walk>>
playVars ==
    <<isDragging, isRotating, dragTarget, deletePopover, world,
      bodyGameObject, nextBody, removedObjects, lastRebuild>>
layoutVars ==
    <<sceneLayout, savedScene, started, loadResult, throwingImages>>
generateVars == <<calls>>
serverVars == <<request, response>>
folderVars == <<cacheKeys, placedFolderImages, imageCupObj, attempts, interval, canvasWidth>>
\* The variables of the machines that follow the scene machines.
extraVars == <<walkVars, playVars, layoutVars, generateVars, serverVars, folderVars>>
restVars == <<outlineVars, sceneVars, extraVars>>
vars ==
    <<image, tolerance, imageCache, sprite, forceCollisionMode,
      lastCollisionGrid, body, probe, traced, path, pathTolerance, reduced,
      loadStatus, loggedErrors, timers, polls, gameObjects, game, nextMarble,
      respawnTimers, cupCalls, escaped, walk,
      isDragging, isRotating, dragTarget, deletePopover, world,
      bodyGameObject, nextBody, removedObjects, lastRebuild,
      sceneLayout, savedScene, started, loadResult, throwingImages,
      calls,
      request, response,
      cacheKeys, placedFolderImages, imageCupObj, attempts, interval, canvasWidth>>

NoCanvas == [w |-> 0, h |-> 0, data |-> <<>>]
NoGrid == [imageW |-> 0, imageH |-> 0, gridSize |-> 0, useAlpha |-> FALSE,
           cells |-> <<>>]
NoBody == [kind |-> "none"]
NoProbe == [x |-> 0, y |-> 0, called |-> FALSE, solid |-> FALSE]

\* Nothing of the keying machine has run.
KeyIdle == image = NoCanvas /\ tolerance = 10 /\ imageCache = NoCanvas

\* Nothing of the body builder has run.
GridIdle ==
    /\ sprite = NoCanvas
    /\ forceCollisionMode = "auto"
    /\ lastCollisionGrid = NoGrid
    /\ body = NoBody

ProbeIdle == probe = NoProbe

NoTrace ==
    [called |-> FALSE, returns |-> TRUE, fallback |-> FALSE,
     contour |-> <<>>, vertices |-> <<>>]
NoReduced == [called |-> FALSE, returns |-> TRUE, points |-> <<>>]

\* No douglasPeucker call of its own has been made.
SimplifyIdle == path = <<>> /\ pathTolerance = 2 /\ reduced = NoReduced

\* Nothing has been traced.
OutlineIdle == traced = NoTrace /\ SimplifyIdle

\* The fields the constructor sets: no marble, score 0, one marble to keep
\* in play, the single-marble phase.
NewGame ==
    [marbles |-> {}, score |-> 0, targetMarbleCount |-> 1,
     gameOver |-> FALSE, phase |-> "single"]

\* No marble was spawned and no call reached marbleInCup.
MarblesIdle ==
    game = NewGame /\ nextMarble = 1 /\ respawnTimers = <<>> /\ cupCalls = 0

\* No body-building path ran.
BuildIdle == gameObjects = <<>> /\ escaped = FALSE

\* No image was requested, no scene was built, no marble was spawned.
SceneIdle ==
    /\ loadStatus = <<>>
    /\ loggedErrors = {}
    /\ timers = {}
    /\ polls = 0
    /\ MarblesIdle
    /\ BuildIdle

NoWalk ==
    [called |-> FALSE, startX |-> 0, startY |-> 0, returns |-> TRUE,
     contour |-> <<>>]

\* No mooreNeighborhoodTrace call of its own has been made.
WalkIdle == walk = NoWalk

NoRebuild == [called |-> FALSE, skipped |-> {}]

\* The fields the constructor sets (isDragging, isRotating, dragTarget), an
\* empty world, no popover.
PlayIdle ==
    /\ isDragging = FALSE
    /\ isRotating = FALSE
    /\ dragTarget = 0
    /\ deletePopover = 0
    /\ world = {}
    /\ bodyGameObject = <<>>
    /\ nextBody = 1
    /\ removedObjects = {}
    /\ lastRebuild = NoRebuild

NoLayout == [status |-> "absent", written |-> FALSE, objects |-> <<>>]

\* loadSceneLayout has not run and nothing was saved.
LayoutIdle ==
    /\ sceneLayout = NoLayout
    /\ savedScene = <<>>
    /\ started = "no"
    /\ loadResult = "none"
    /\ throwingImages = {}

\* generateObject has not been called.
GenerateIdle == calls = <<>>

NoRequest ==
    [handler |-> "none", method |-> "POST", apiKey |-> FALSE,
     prompt |-> "missing", model |-> <<>>]
NoResponse ==
    [called |-> FALSE, status |-> 0, imageUrl |-> FALSE, modelCalls |-> 0]

\* No request was handled.
ServerIdle == request = NoRequest /\ response = NoResponse

\* scheduleFolderImagePlacement has not run.
FolderIdle ==
    /\ cacheKeys = <<>>
    /\ placedFolderImages = {}
    /\ imageCupObj = FALSE
    /\ attempts = 0
    /\ interval = "none"
    /\ canvasWidth = 0

\* The machines that follow the scene machines have not run, the one named
\* apart.
ExtraIdleBut(machine) ==
    /\ IF machine = "walk" THEN TRUE ELSE WalkIdle
    /\ IF machine = "play" THEN TRUE ELSE PlayIdle
    /\ IF machine = "layout" THEN TRUE ELSE LayoutIdle
    /\ IF machine = "generate" THEN TRUE ELSE GenerateIdle
    /\ IF machine = "server" THEN TRUE ELSE ServerIdle
    /\ IF machine = "folder" THEN TRUE ELSE FolderIdle

\* The machines that follow the scene machines are left alone, the one named
\* apart.
ExtraUnchangedBut(machine) ==
    /\ IF machine = "walk" THEN TRUE ELSE UNCHANGED walkVars
    /\ IF machine = "play" THEN TRUE ELSE UNCHANGED playVars
    /\ IF machine = "layout" THEN TRUE ELSE UNCHANGED layoutVars
    /\ IF machine = "generate" THEN TRUE ELSE UNCHANGED generateVars
    /\ IF machine = "server" THEN TRUE ELSE UNCHANGED serverVars
    /\ IF machine = "folder" THEN TRUE ELSE UNCHANGED folderVars

ExtraIdle == ExtraIdleBut("none")

RestIdle == OutlineIdle /\ SceneIdle /\ ExtraIdle

(***************************************************************************)
(* Bounds of the model.                                                    *)
(***************************************************************************)
MaxKeyW == 3
MaxKeyH == 3
MaxKeyArea == 9
MaxStripW == 5

(***************************************************************************)
(* Arithmetic helpers.                                                     *)
(***************************************************************************)
Max(a, b) == IF a >= b THEN a ELSE b
Min(a, b) == IF a <= b THEN a ELSE b
Abs(a) == IF a >= 0 THEN a ELSE -a
Max3(a, b, c) == Max(a, Max(b, c))
Min3(a, b, c) == Min(a, Min(b, c))

(***************************************************************************)
(* Pixels the decoded images are made of.                                  *)
(***************************************************************************)
Px(r, g, b, a) == [r |-> r, g |-> g, b |-> b, a |-> a]
White == Px(255, 255, 255, 255)
OffWhite == Px(243, 243, 243, 255)
Red == Px(200, 30, 30, 255)
Grey == Px(100, 100, 100, 255)
Grey2 == Px(131, 131, 131, 255)
Clear == Px(0, 0, 0, 0)

\* Two-tone images: the pairs of tones an image is painted with.
KeyTonePairs ==
    { <<White, Red>>, <<OffWhite, Red>>, <<Grey, Red>>, <<Grey, Grey2>>,
      <<Clear, Red>>, <<White, OffWhite>>, <<Grey2, Red>>, <<Clear, White>> }

\* The tolerances keyWhiteToAlpha is called with: 10 is whiteToAlphaTolerance,
\* 48 the default of the options, 0 and 255 the ends of the clamp, 300 lies
\* outside it.
Tolerances == {0, 10, 48, 255, 300}

KeySizes ==
    { s \in (1..MaxKeyW) \X (1..MaxKeyH) : s[1] * s[2] <= MaxKeyArea }

\* A two-tone raster: pixel i has tone b when pat[i], else tone a.
TwoTone(w, h, a, b, pat) ==
    [w |-> w, h |-> h,
     data |-> [i \in 0..(w * h - 1) |-> IF pat[i] THEN b ELSE a]]

\* A strip: three rows; the four corners show the background tone c, the
\* rest of the outer rows tone a, the middle row tone b where pat, else a.
Strip(w, c, a, b, pat) ==
    [w |-> w, h |-> 3,
     data |-> [i \in 0..(3 * w - 1) |->
                  IF i \in {0, w - 1, 2 * w, 3 * w - 1} THEN c
                  ELSE IF i \div w = 1 /\ pat[i % w] THEN b ELSE a]]

\* <<corner tone, ring tone, inner tone>> of the strips.
StripTones ==
    { <<White, Red, OffWhite>>, <<Grey, Red, Grey2>>, <<White, Red, Clear>>,
      <<Grey, Red, White>>, <<Red, Grey, OffWhite>> }

(***************************************************************************)
(* keyWhiteToAlpha                                                         *)
(***************************************************************************)
\* Math.round of n / 4 for n >= 0: halves round up.
RoundDiv4(n) == (n + 2) \div 4

\* corner(x, y): the RGB of one pixel.
corner(img, x, y) == img.data[y * img.w + x]

\* The background colour sampled from the four corners.
bgColor(img) ==
    LET c1 == corner(img, 0, 0)
        c2 == corner(img, img.w - 1, 0)
        c3 == corner(img, 0, img.h - 1)
        c4 == corner(img, img.w - 1, img.h - 1)
    IN  [r |-> RoundDiv4(c1.r + c2.r + c3.r + c4.r),
         g |-> RoundDiv4(c1.g + c2.g + c3.g + c4.g),
         b |-> RoundDiv4(c1.b + c2.b + c3.b + c4.b)]

\* tolerance clamped to [0, 255].
clampTolerance(t) == Max(0, Min(255, t))

\* Mutant of colorTol: the floor of 20 forgotten.
colorTolUnfloored(tol) == (tol * 5) \div 4

\* colorTol = max(20, floor(tolerance * 1.25)).
colorTol(tol) == Max(20, (tol * 5) \div 4)

\* dr*dr + dg*dg + db*db; sqrt(d2) < c is d2 < c*c for a whole c >= 0.
dist2(p, bg) ==
    (p.r - bg.r) * (p.r - bg.r) + (p.g - bg.g) * (p.g - bg.g)
        + (p.b - bg.b) * (p.b - bg.b)

\* The first loop's makeTransparent for one pixel. Brightness is a sum over 3:
\* |(r+g+b)/3 - bgBrightness| < 30 is |r+g+b - (bgR+bgG+bgB)| < 90, except
\* that at a difference of exactly 90 the rounding of the two quotients
\* decides; no image of KeyTonePairs has a pixel at that difference.
makeTransparent(p, tol, bg) ==
    LET thr == 255 - tol
    IN  \/ (p.r >= thr /\ p.g >= thr /\ p.b >= thr)
        \/ /\ dist2(p, bg) < colorTol(tol) * colorTol(tol)
           /\ Abs((p.r + p.g + p.b) - (bg.r + bg.g + bg.b)) < 90

\* Mutant of perPixelPass: a cleared pixel is written as transparent black.
perPixelPassZeroed(img, tol) ==
    LET bg == bgColor(img)
    IN  [i \in DOMAIN img.data |->
            IF makeTransparent(img.data[i], tol, bg)
            THEN Px(0, 0, 0, 0)
            ELSE img.data[i]]

\* The data after the first loop: alpha cleared where makeTransparent.
perPixelPass(img, tol) ==
    LET bg == bgColor(img)
    IN  [i \in DOMAIN img.data |->
            IF makeTransparent(img.data[i], tol, bg)
            THEN [img.data[i] EXCEPT !.a = 0]
            ELSE img.data[i]]

\* isBackgroundLike on the current data: brightness > 240 is r+g+b > 720.
isBackgroundLike(p, tol, bg) ==
    \/ p.a = 0
    \/ /\ p.r + p.g + p.b > 720
       /\ Max3(p.r, p.g, p.b) - Min3(p.r, p.g, p.b) < 25
    \/ dist2(p, bg) < colorTol(tol) * colorTol(tol)

inBounds(w, h, x, y) == x >= 0 /\ y >= 0 /\ x < w /\ y < h

\* The seed queue: for each x the top and bottom pixel, then for each y the
\* left and right pixel, in the order the two loops push them.
RECURSIVE seedRows(_, _, _)
seedRows(w, h, x) ==
    IF x >= w THEN <<>>
    ELSE <<(<<x, 0>>), (<<x, h - 1>>)>> \o seedRows(w, h, x + 1)

RECURSIVE seedCols(_, _, _)
seedCols(w, h, y) ==
    IF y >= h THEN <<>>
    ELSE <<(<<0, y>>), (<<w - 1, y>>)>> \o seedCols(w, h, y + 1)

\* Mutant of propagate: the diagonal neighbours are pushed too.
propagateDiagonal(x, y) ==
    <<(<<x + 1, y>>), (<<x - 1, y>>), (<<x, y + 1>>), (<<x, y - 1>>),
      (<<x + 1, y + 1>>), (<<x - 1, y - 1>>), (<<x - 1, y + 1>>),
      (<<x + 1, y - 1>>)>>

\* The pixels pushed after a background-like pixel is cleared.
propagate(x, y) ==
    <<(<<x + 1, y>>), (<<x - 1, y>>), (<<x, y + 1>>), (<<x, y - 1>>)>>

\* The while loop: pop the last entry, skip it when out of bounds or visited,
\* else mark it and, when background-like, clear it and push its 4 neighbours.
RECURSIVE floodLoop(_, _, _, _, _, _, _)
floodLoop(q, visited, data, w, h, tol, bg) ==
    IF q = <<>> THEN data
    ELSE LET n == Len(q)
             x == q[n][1]
             y == q[n][2]
             rest == SubSeq(q, 1, n - 1)
             vi == y * w + x
         IN  IF ~inBounds(w, h, x, y) \/ vi \in visited
             THEN floodLoop(rest, visited, data, w, h, tol, bg)
             ELSE IF isBackgroundLike(data[vi], tol, bg)
                  THEN floodLoop(rest \o propagate(x, y),
                                 visited \cup {vi},
                                 [data EXCEPT ![vi].a = 0], w, h, tol, bg)
                  ELSE floodLoop(rest, visited \cup {vi}, data, w, h, tol, bg)

floodFill(data, w, h, tol, bg) ==
    floodLoop(seedRows(w, h, 0) \o seedCols(w, h, 0), {}, data, w, h, tol, bg)

\* keyWhiteToAlpha(image, {tolerance: t}): a new canvas of the image's size.
keyWhiteToAlpha(img, t) ==
    LET tol == clampTolerance(t)
        bg == bgColor(img)
    IN  [w |-> img.w, h |-> img.h,
         data |-> floodFill(perPixelPass(img, tol), img.w, img.h, tol, bg)]

(***************************************************************************)
(* The keying machine: an image finishes loading, img.onload keys it and   *)
(* stores the canvas in the cache.                                         *)
(***************************************************************************)
InitKey ==
    /\ \/ \E s \in KeySizes, tp \in KeyTonePairs :
             \E pat \in [0..(s[1] * s[2] - 1) -> BOOLEAN] :
                image = TwoTone(s[1], s[2], tp[1], tp[2], pat)
       \/ \E w \in 3..MaxStripW, tt \in StripTones :
             \E pat \in [0..(w - 1) -> BOOLEAN] :
                image = Strip(w, tt[1], tt[2], tt[3], pat)
    /\ tolerance = 10
    /\ imageCache = NoCanvas
    /\ GridIdle
    /\ ProbeIdle
    /\ RestIdle

\* loadAndProcessImage's img.onload.
LoadAndProcessImage(t) ==
    /\ imageCache = NoCanvas
    /\ tolerance' = t
    /\ imageCache' = keyWhiteToAlpha(image, t)
    /\ UNCHANGED <<image, gridVars, probe, restVars>>

NextKey == \E t \in Tolerances : LoadAndProcessImage(t)

SpecKey == InitKey /\ [][NextKey]_vars

(***************************************************************************)
(* createAccurateImageBody                                                 *)
(*                                                                         *)
(* Positions are rationals. A body built from n parts keeps them as whole  *)
(* numbers of 1/unit pixels with unit = 2 * n * n: a part centre is a      *)
(* multiple of 1/2 pixel, the mean of n of them a multiple of 1/(2n), and  *)
(* the mean of n such differences a multiple of 1/(2n*n). The rounding of  *)
(* the IEEE quotients totalX / parts.length is not modelled.               *)
(***************************************************************************)
alphaThreshold == 128
useAlphaForCollision == TRUE
gridSize == 4

\* The omitted fifth argument of the call at line 918.
Undefined == -1

\* Mutant of isNonWhitePixel: alpha >= threshold, as the comment on
\* alphaThreshold words it.
isNonWhitePixelAtLeast(imageData, x, y, width, height) ==
    IF x < 0 \/ y < 0 \/ x >= width \/ (height # Undefined /\ y >= height)
    THEN FALSE
    ELSE LET index == y * width + x
         IN  IF index \in DOMAIN imageData.data
             THEN imageData.data[index].a >= alphaThreshold
             ELSE FALSE

\* isNonWhitePixel(imageData, x, y, width, height): y >= undefined is false,
\* and so is undefined > alphaThreshold for an index past the data.
isNonWhitePixel(imageData, x, y, width, height) ==
    IF x < 0 \/ y < 0 \/ x >= width \/ (height # Undefined /\ y >= height)
    THEN FALSE
    ELSE LET index == y * width + x
         IN  IF index \in DOMAIN imageData.data
             THEN imageData.data[index].a > alphaThreshold
             ELSE FALSE

\* The samples detectTransparency takes with a < 250, and all it takes: the
\* top and bottom pixel of every step-th column, the left and right pixel of
\* every step-th row, and a coarse interior grid.
detectTransparency(imageData) ==
    LET width == imageData.w
        height == imageData.h
        step == Max(1, Min(width, height) \div 50)
        a(x, y) == imageData.data[y * width + x].a
        xs == { x \in 0..(width - 1) : x % step = 0 }
        ys == { y \in 0..(height - 1) : y % step = 0 }
        ix == { x \in step..(width - 1) : (x - step) % (step * 5) = 0 }
        iy == { y \in step..(height - 1) : (y - step) % (step * 5) = 0 }
        transparentSamples ==
            Cardinality({ x \in xs : a(x, 0) < 250 })
            + Cardinality({ x \in xs : a(x, height - 1) < 250 })
            + Cardinality({ y \in ys : a(0, y) < 250 })
            + Cardinality({ y \in ys : a(width - 1, y) < 250 })
            + Cardinality({ c \in ix \X iy : a(c[1], c[2]) < 250 })
        totalSamples ==
            2 * Cardinality(xs) + 2 * Cardinality(ys) + Cardinality(ix \X iy)
    IN  \* transparentSamples > Math.max(5, totalSamples * 0.02)
        transparentSamples > 5 /\ 50 * transparentSamples > totalSamples

\* img instanceof HTMLCanvasElement: every caller passes a cached canvas.
isProcessedCanvas(img) == TRUE

\* The detection mode of a build.
useAlphaMode(imageData, mode) ==
    IF mode = "alpha" THEN TRUE
    ELSE IF mode = "rgb" THEN FALSE
    ELSE useAlphaForCollision
            /\ (isProcessedCanvas(imageData) \/ detectTransparency(imageData))

\* Mutant of cellInclude: a threshold of 0.75.
cellIncludeThreeQuarters(solidCount, totalPx) ==
    solidCount > 0 /\ 4 * solidCount > 3 * totalPx

\* include = hasSolid && ratio > 0.70, with ratio = solidCount / totalPx.
cellInclude(solidCount, totalPx) ==
    solidCount > 0 /\ 10 * solidCount > 7 * totalPx

\* One grid cell's record: ratio is kept as the pair solidCount / totalPx.
cellRecord(imageData, gx, gy) ==
    LET x1 == Min(gx + gridSize, imageData.w)
        y1 == Min(gy + gridSize, imageData.h)
        solidCount ==
            Cardinality({ p \in (gx..(x1 - 1)) \X (gy..(y1 - 1)) :
                            isNonWhitePixel(imageData, p[1], p[2],
                                            imageData.w, Undefined) })
        totalPx == (y1 - gy) * (x1 - gx)
    IN  [gx |-> gx, gy |-> gy,
         ratio |-> IF totalPx > 0
                   THEN [num |-> solidCount, den |-> totalPx]
                   ELSE [num |-> 0, den |-> 1],
         include |-> cellInclude(solidCount, totalPx)]

\* cellRecords: the two for loops, rows of cells from the top, each from the
\* left.
cellRecords(imageData) ==
    LET cols == (imageData.w + gridSize - 1) \div gridSize
        rows == (imageData.h + gridSize - 1) \div gridSize
    IN  [k \in 1..(cols * rows) |->
            cellRecord(imageData, gridSize * ((k - 1) % cols),
                       gridSize * ((k - 1) \div cols))]

\* Mutant of partCentre: the half cell is not added.
partCentreCorner(imageData, cell) ==
    [x |-> 2 * cell.gx - imageData.w, y |-> 2 * cell.gy - imageData.h]

\* rectX = gx - width / 2 + gridSize / 2 (and rectY), in half pixels.
partCentre(imageData, cell) ==
    [x |-> 2 * cell.gx - imageData.w + gridSize,
     y |-> 2 * cell.gy - imageData.h + gridSize]

RECURSIVE SumX(_)
SumX(ps) == IF ps = <<>> THEN 0 ELSE ps[1].x + SumX(Tail(ps))

RECURSIVE SumY(_)
SumY(ps) == IF ps = <<>> THEN 0 ELSE ps[1].y + SumY(Tail(ps))

\* Mutant of geometricCenter: the first part's centre is taken for the mean.
geometricCenterOfFirst(parts) == [x |-> parts[1].x, y |-> parts[1].y]

\* geometricCenter = (totalX / parts.length, totalY / parts.length).
geometricCenter(parts) ==
    [x |-> SumX(parts) \div Len(parts), y |-> SumY(parts) \div Len(parts)]

\* Every part moved by (dx, dy).
shiftParts(parts, dx, dy) ==
    [k \in 1..Len(parts) |->
        [parts[k] EXCEPT !.x = parts[k].x + dx, !.y = parts[k].y + dy]]

\* Matter.Bodies.rectangle(x, y, w, h): a part centred at (x, y).
MatterRectangle(x, y, w, h) == [x |-> x, y |-> y, w |-> w, h |-> h]

\* Mutant of MatterBodyCreate: the compound's position taken from its first
\* part instead of the centre of mass.
MatterBodyCreateAtFirstPart(parts, unit) ==
    [kind |-> "compound", unit |-> unit, parts |-> parts,
     position |-> [x |-> parts[1].x, y |-> parts[1].y]]

\* Matter.Body.create({parts}): the compound body's position is the centre of
\* mass of its parts, the mass-weighted mean of their positions; the parts
\* are static squares of one size, which weigh the same.
MatterBodyCreate(parts, unit) ==
    [kind |-> "compound", unit |-> unit, parts |-> parts,
     position |-> [x |-> SumX(parts) \div Len(parts),
                   y |-> SumY(parts) \div Len(parts)]]

\* Matter.Body.translate(body, t): the body and its parts move by t.
MatterBodyTranslate(b, t) ==
    [b EXCEPT !.position = [x |-> b.position.x + t.x, y |-> b.position.y + t.y],
              !.parts = shiftParts(b.parts, t.x, t.y)]

\* Mutant of fallbackRectangle: one grid cell instead of the sprite's box.
fallbackRectangleCell(width, height) ==
    [kind |-> "rectangle", unit |-> 1, parts |-> <<>>,
     position |-> [x |-> 0, y |-> 0], width |-> gridSize, height |-> gridSize]

\* Matter.Bodies.rectangle(0, 0, width, height): the bounding-box body.
fallbackRectangle(width, height) ==
    [kind |-> "rectangle", unit |-> 1, parts |-> <<>>,
     position |-> [x |-> 0, y |-> 0], width |-> width, height |-> height]

\* Centring the parts, merging them, normalising the centre of mass and
\* storing renderOffset.
assembleCompound(imageData, included) ==
    LET n == Len(included)
        unit == 2 * n * n
        parts == [k \in 1..n |->
                    LET c == partCentre(imageData, included[k])
                    IN  MatterRectangle(c.x * n * n, c.y * n * n,
                                        gridSize, gridSize)]
        gc == geometricCenter(parts)
        centred == shiftParts(parts, -gc.x, -gc.y)
        compoundBody == MatterBodyCreate(centred, unit)
        comShift == compoundBody.position
        normalised ==
            MatterBodyTranslate(compoundBody,
                                [x |-> -comShift.x, y |-> -comShift.y])
    IN  [kind |-> "compound", unit |-> unit, parts |-> normalised.parts,
         position |-> normalised.position, renderOffset |-> gc]

\* createAccurateImageBody(img, width, height) at scale 1 (width and height
\* are the canvas's own): the body it returns and the grid it stores.
createAccurateImageBody(img, width, height, mode) ==
    LET imageData == [w |-> Max(1, width), h |-> Max(1, height),
                      data |-> img.data]
        cells == cellRecords(imageData)
        included == SelectSeq(cells, LAMBDA c : c.include)
    IN  [grid |-> [imageW |-> imageData.w, imageH |-> imageData.h,
                   gridSize |-> gridSize,
                   useAlpha |-> useAlphaMode(imageData, mode),
                   cells |-> cells],
         body |-> IF Len(included) = 0
                  THEN fallbackRectangle(width, height)
                  ELSE assembleCompound(imageData, included)]

(***************************************************************************)
(* The body-building machine: a cached canvas becomes a sprite; the keys   *)
(* A, B and O set forceCollisionMode; a build (on creation, or by the      *)
(* rebuild key) replaces the body and the stored grid.                     *)
(***************************************************************************)
MaxGridW == 9
MaxGridH == 5
MaxToneW == 4
MaxToneH == 3

SemiBelow == Px(200, 30, 30, 128)
SemiAbove == Px(200, 30, 30, 129)

\* <<paper, ink>> of the sprites with other tones than ink on transparency.
GridTonePairs ==
    { <<SemiBelow, SemiAbove>>, <<White, Red>>, <<Clear, White>> }

\* The ink of a pattern: the pixels of the rectangle [x0, x1) x [y0, y1),
\* with the pixel dot toggled (dot = -1: none).
Inked(w, h, x0, x1, y0, y1, dot) ==
    [i \in 0..(w * h - 1) |->
        ((i % w) >= x0 /\ (i % w) < x1 /\ (i \div w) >= y0 /\ (i \div w) < y1)
            # (i = dot)]

\* The rectangles start in the first or second column of the first row.
GridPatterns(w, h) ==
    { Inked(w, h, r[1], r[2], r[3], r[4], d) :
        r \in { q \in (0..1) \X (0..w) \X {0} \X (0..h) :
                  \/ (q[1] < q[2] /\ q[3] < q[4])
                  \/ (q[1] = 0 /\ q[2] = 0 /\ q[3] = 0 /\ q[4] = 0) },
        d \in {-1, 0, w * h - 1, w + 1} }

InitGrid ==
    /\ \/ \E w \in 1..MaxGridW, h \in 1..MaxGridH :
             \E pat \in GridPatterns(w, h) :
                sprite = TwoTone(w, h, Clear, Red, pat)
       \/ \E w \in 1..MaxToneW, h \in 1..MaxToneH, tp \in GridTonePairs :
             \E pat \in GridPatterns(w, h) :
                sprite = TwoTone(w, h, tp[1], tp[2], pat)
    /\ forceCollisionMode = "auto"
    /\ lastCollisionGrid = NoGrid
    /\ body = NoBody
    /\ KeyIdle
    /\ ProbeIdle
    /\ RestIdle

\* keydown of A, B or O.
PressModeKey(mode) ==
    /\ forceCollisionMode' = mode
    /\ UNCHANGED <<sprite, lastCollisionGrid, body, keyVars, probe, restVars>>

\* A body build for the sprite.
BuildImageBody ==
    LET built == createAccurateImageBody(sprite, sprite.w, sprite.h,
                                         forceCollisionMode)
    IN  /\ body' = built.body
        /\ lastCollisionGrid' = built.grid
        /\ UNCHANGED <<sprite, forceCollisionMode, keyVars, probe, restVars>>

NextGrid ==
    \/ \E mode \in {"auto", "alpha", "rgb"} : PressModeKey(mode)
    \/ BuildImageBody

SpecGrid == InitGrid /\ [][NextGrid]_vars

(***************************************************************************)
(* The classifier machine: isNonWhitePixel is called on a sprite by the    *)
(* grid loop (in bounds, without a height) and by the contour tracer's     *)
(* neighbour test (one step around an in-bounds pixel, with the height).   *)
(***************************************************************************)
MaxProbeW == 3
MaxProbeH == 3

InitSolid ==
    /\ \E w \in 1..MaxProbeW, h \in 1..MaxProbeH :
          \E tp \in {<<SemiBelow, SemiAbove>>, <<Clear, Red>>} :
             \E pat \in GridPatterns(w, h) :
                sprite = TwoTone(w, h, tp[1], tp[2], pat)
    /\ forceCollisionMode = "auto"
    /\ lastCollisionGrid = NoGrid
    /\ body = NoBody
    /\ KeyIdle
    /\ ProbeIdle
    /\ RestIdle

\* The grid loop's call: isNonWhitePixel(imageData, px, py, imageData.width).
GridCellTest(px, py) ==
    /\ probe' = [x |-> px, y |-> py, called |-> TRUE,
                 solid |-> isNonWhitePixel(sprite, px, py, sprite.w,
                                           Undefined)]
    /\ UNCHANGED <<gridVars, keyVars, restVars>>

\* The tracer's call: isNonWhitePixel(imageData, nextX, nextY, width, height).
TraceNeighbourTest(nextX, nextY) ==
    /\ probe' = [x |-> nextX, y |-> nextY, called |-> TRUE,
                 solid |-> isNonWhitePixel(sprite, nextX, nextY, sprite.w,
                                           sprite.h)]
    /\ UNCHANGED <<gridVars, keyVars, restVars>>

NextSolid ==
    \/ \E px \in 0..(sprite.w - 1), py \in 0..(sprite.h - 1) :
          GridCellTest(px, py)
    \/ \E nextX \in -1..sprite.w, nextY \in -1..sprite.h :
          TraceNeighbourTest(nextX, nextY)

SpecSolid == InitSolid /\ [][NextSolid]_vars

(***************************************************************************)
(* Contour tracing: traceVerticesFromCanvas, mooreNeighborhoodTrace,       *)
(* douglasPeucker and pointToLineDistance. A point is a record [x, y].     *)
(* pointToLineDistance is kept as the exact square of the distance, a      *)
(* fraction [num, den]; the rounding of Math.sqrt and of dot / lenSq is    *)
(* not modelled. The vertices of traceVerticesFromCanvas are in half       *)
(* pixels (centerX and centerY are multiples of 1/2), where the tolerance  *)
(* 2.0 is 4.                                                               *)
(***************************************************************************)
Pt(x, y) == [x |-> x, y |-> y]

\* The squared distance of point from the segment lineStart..lineEnd:
\* param < 0 is dot < 0 and param > 1 is dot > lenSq, and on the segment
\* dx * dx + dy * dy is (A * D - B * C)^2 / lenSq.
pointToLineDistance(point, lineStart, lineEnd) ==
    LET A == point.x - lineStart.x
        B == point.y - lineStart.y
        C == lineEnd.x - lineStart.x
        D == lineEnd.y - lineStart.y
        dot == A * C + B * D
        lenSq == C * C + D * D
    IN  IF lenSq = 0 THEN [num |-> A * A + B * B, den |-> 1]
        ELSE IF dot < 0 THEN [num |-> A * A + B * B, den |-> 1]
        ELSE IF dot > lenSq
             THEN [num |-> (point.x - lineEnd.x) * (point.x - lineEnd.x)
                           + (point.y - lineEnd.y) * (point.y - lineEnd.y),
                   den |-> 1]
        ELSE [num |-> (A * D - B * C) * (A * D - B * C), den |-> lenSq]

\* d > e for two squared distances.
DistanceGreater(d, e) == d.num * e.den > e.num * d.den

\* distance > tolerance for a squared distance and a tolerance.
DistanceExceeds(d, tol) ==
    IF tol < 0 THEN TRUE ELSE d.num > tol * tol * d.den

\* The scan for the farthest interior point: maxIndex is the code's 0-based
\* index of the first point at the greatest distance, 0 with maxDistance 0
\* when no interior point is off the segment.
farthestPoint(points) ==
    LET n == Len(points)
        d(i) == pointToLineDistance(points[i + 1], points[1], points[n])
        best == { i \in 1..(n - 2) :
                    /\ d(i).num > 0
                    /\ \A j \in 1..(n - 2) : ~DistanceGreater(d(j), d(i)) }
    IN  IF best = {}
        THEN [maxIndex |-> 0, maxDistance |-> [num |-> 0, den |-> 1]]
        ELSE LET i == CHOOSE k \in best : \A j \in best : k <= j
             IN  [maxIndex |-> i, maxDistance |-> d(i)]

\* left.slice(0, -1).concat(right)
joinHalves(left, right) == SubSeq(left, 1, Len(left) - 1) \o right

\* Mutant of keepEnds: the first point only.
keepEndsFirstOnly(points) == <<points[1]>>

\* [points[0], points[points.length - 1]]
keepEnds(points) == <<points[1], points[Len(points)]>>

\* douglasPeucker(points, tolerance): returns is FALSE when the call never
\* returns, which is when maxDistance > tolerance with maxIndex 0: the right
\* half points.slice(0) is the call's own argument.
RECURSIVE douglasPeucker(_, _)
douglasPeucker(points, tol) ==
    IF Len(points) <= 2 THEN [returns |-> TRUE, points |-> points]
    ELSE LET far == farthestPoint(points)
         IN  IF DistanceExceeds(far.maxDistance, tol)
             THEN IF far.maxIndex = 0
                  THEN [returns |-> FALSE, points |-> <<>>]
                  ELSE LET left ==
                               douglasPeucker(
                                   SubSeq(points, 1, far.maxIndex + 1), tol)
                           right ==
                               douglasPeucker(
                                   SubSeq(points, far.maxIndex + 1,
                                          Len(points)), tol)
                       IN  IF left.returns /\ right.returns
                           THEN [returns |-> TRUE,
                                 points |-> joinHalves(left.points,
                                                       right.points)]
                           ELSE [returns |-> FALSE, points |-> <<>>]
             ELSE [returns |-> TRUE, points |-> keepEnds(points)]

\* 0:N, 1:NE, 2:E, 3:SE, 4:S, 5:SW, 6:W, 7:NW
moves ==
    [d \in 0..7 |->
        [dx |-> IF d \in {1, 2, 3} THEN 1 ELSE IF d \in {5, 6, 7} THEN -1 ELSE 0,
         dy |-> IF d \in {7, 0, 1} THEN -1 ELSE IF d \in {3, 4, 5} THEN 1 ELSE 0]]

\* The for loop over i with the scan started at N whatever the last move
\* was.
firstSolidDirectionFromNorth(imageData, width, height, x, y, backTrackDir) ==
    LET found == { i \in 0..7 :
                     isNonWhitePixel(imageData, x + moves[i].dx,
                                     y + moves[i].dy, width, height) }
    IN  IF found = {} THEN -1
        ELSE CHOOSE i \in found : \A j \in found : i <= j

\* The for loop over i: the first checkDir with a solid neighbour, -1 when
\* foundNext stays false.
firstSolidDirection(imageData, width, height, x, y, backTrackDir) ==
    LET found == { i \in 0..7 :
                     isNonWhitePixel(imageData,
                                     x + moves[(backTrackDir + i + 1) % 8].dx,
                                     y + moves[(backTrackDir + i + 1) % 8].dy,
                                     width, height) }
    IN  IF found = {} THEN -1
        ELSE (backTrackDir + (CHOOSE i \in found : \A j \in found : i <= j)
                 + 1) % 8

\* The do-while loop. (x, y, dir) is all the loop reads, so a run of more
\* than 8 * width * height iterations repeats one and never ends: returns is
\* FALSE then.
RECURSIVE traceLoop(_, _, _, _, _, _, _, _, _, _)
traceLoop(imageData, width, height, startX, startY, x, y, dir, contour, fuel) ==
    LET pushed == Append(contour, Pt(x, y))
        backTrackDir == (dir + 4) % 8
        checkDir == firstSolidDirection(imageData, width, height, x, y,
                                        backTrackDir)
        nextX == x + moves[checkDir].dx
        nextY == y + moves[checkDir].dy
    IN  IF checkDir = -1 THEN [returns |-> TRUE, contour |-> pushed]
        ELSE IF nextX = startX /\ nextY = startY
             THEN [returns |-> TRUE, contour |-> pushed]
        ELSE IF fuel = 0 THEN [returns |-> FALSE, contour |-> pushed]
        ELSE traceLoop(imageData, width, height, startX, startY, nextX,
                       nextY, checkDir, pushed, fuel - 1)

mooreNeighborhoodTrace(imageData, width, height, startX, startY) ==
    traceLoop(imageData, width, height, startX, startY, startX, startY, 0,
              <<>>, 8 * width * height)

\* createBoundingBoxVertices(width, height, centerX, centerY), in half
\* pixels.
createBoundingBoxVertices(width, height, centerX2, centerY2) ==
    << Pt(0 - centerX2, 0 - centerY2),
       Pt(2 * width - centerX2, 0 - centerY2),
       Pt(2 * width - centerX2, 2 * height - centerY2),
       Pt(0 - centerX2, 2 * height - centerY2) >>

\* Mutant of contourTooShort: fewer than 2 points.
contourTooShortBelowTwo(contour) == Len(contour) < 2

\* contour.length < 3
contourTooShort(contour) == Len(contour) < 3

\* traceVerticesFromCanvas(canvas): the vertices it returns (in half pixels),
\* with the raw contour and whether the bounding box was used.
traceVerticesFromCanvas(canvas) ==
    LET imageData == canvas
        width == canvas.w
        height == canvas.h
        solid == { p \in (0..(width - 1)) \X (0..(height - 1)) :
                     isNonWhitePixel(imageData, p[1], p[2], width, height) }
        minX == IF solid = {} THEN width
                ELSE CHOOSE m \in { p[1] : p \in solid } :
                         \A p \in solid : m <= p[1]
        maxX == IF solid = {} THEN -1
                ELSE CHOOSE m \in { p[1] : p \in solid } :
                         \A p \in solid : m >= p[1]
        minY == IF solid = {} THEN height
                ELSE CHOOSE m \in { p[2] : p \in solid } :
                         \A p \in solid : m <= p[2]
        maxY == IF solid = {} THEN -1
                ELSE CHOOSE m \in { p[2] : p \in solid } :
                         \A p \in solid : m >= p[2]
        \* 2 * (minX + (maxX - minX) / 2)
        centerX2 == 2 * minX + (maxX - minX)
        centerY2 == 2 * minY + (maxY - minY)
        \* the first solid pixel in row-major order
        startY == minY
        startX == CHOOSE m \in { p[1] : p \in { q \in solid : q[2] = minY } } :
                      \A q \in solid : q[2] = minY => m <= q[1]
        box == createBoundingBoxVertices(width, height, centerX2, centerY2)
    IN  IF solid = {}
        THEN [called |-> TRUE, returns |-> TRUE, fallback |-> TRUE,
              contour |-> <<>>, vertices |-> box]
        ELSE LET trace == mooreNeighborhoodTrace(imageData, width, height,
                                                 startX, startY)
                 contour == trace.contour
                 vertices == [k \in DOMAIN contour |->
                                Pt(2 * contour[k].x - centerX2,
                                   2 * contour[k].y - centerY2)]
                 simplified == douglasPeucker(vertices, 4)
             IN  IF ~trace.returns
                 THEN [called |-> TRUE, returns |-> FALSE, fallback |-> FALSE,
                       contour |-> contour, vertices |-> <<>>]
                 ELSE IF contourTooShort(contour)
                 THEN [called |-> TRUE, returns |-> TRUE, fallback |-> TRUE,
                       contour |-> contour, vertices |-> box]
                 ELSE [called |-> TRUE, returns |-> simplified.returns,
                       fallback |-> FALSE, contour |-> contour,
                       vertices |-> simplified.points]

(***************************************************************************)
(* The outline machine: a canvas (text or an image drawn on a temporary    *)
(* canvas) is traced by traceVerticesFromCanvas.                           *)
(***************************************************************************)
MaxTraceW == 4
MaxTraceH == 3
MaxTraceArea == 12
MaxRectW == 7
MaxRectH == 7

\* Every raster of ink on transparency of a size, and the filled rectangles.
TraceRasters(w, h) ==
    { TwoTone(w, h, Clear, Red, pat) : pat \in [0..(w * h - 1) -> BOOLEAN] }
RectRasters(w, h) ==
    { TwoTone(w, h, Clear, Red, Inked(w, h, r[1], r[2], r[3], r[4], -1)) :
        r \in { q \in (0..w) \X (0..w) \X (0..h) \X (0..h) :
                  q[1] < q[2] /\ q[3] < q[4] } }

InitTrace ==
    /\ \/ \E w \in 1..MaxTraceW, h \in 1..MaxTraceH :
             /\ w * h <= MaxTraceArea
             /\ sprite \in TraceRasters(w, h)
       \/ \E w \in 1..MaxRectW, h \in 1..MaxRectH :
             sprite \in RectRasters(w, h)
    /\ forceCollisionMode = "auto"
    /\ lastCollisionGrid = NoGrid
    /\ body = NoBody
    /\ KeyIdle
    /\ ProbeIdle
    /\ traced = NoTrace
    /\ SimplifyIdle
    /\ SceneIdle
    /\ ExtraIdle

\* traceTextVertices / traceImageVertices: the canvas is traced.
TraceOutline ==
    /\ traced' = traceVerticesFromCanvas(sprite)
    /\ UNCHANGED <<keyVars, gridVars, probe, simplifyVars, sceneVars,
                   extraVars>>

NextTrace == TraceOutline

SpecTrace == InitTrace /\ [][NextTrace]_vars

(***************************************************************************)
(* The simplification machine: douglasPeucker applied to a point sequence. *)
(***************************************************************************)
MaxPathLen == 4
MaxPathX == 1
MaxPathY == 1

PathPoints == { Pt(x, y) : x \in 0..MaxPathX, y \in 0..MaxPathY }
PathTolerances == {-1, 0, 1, 2}

InitSimplify ==
    /\ \E n \in 0..MaxPathLen : path \in [1..n -> PathPoints]
    /\ pathTolerance \in PathTolerances
    /\ reduced = NoReduced
    /\ traced = NoTrace
    /\ KeyIdle
    /\ GridIdle
    /\ ProbeIdle
    /\ SceneIdle
    /\ ExtraIdle

\* douglasPeucker(points, tolerance)
Simplify ==
    /\ reduced' = [called |-> TRUE] @@ douglasPeucker(path, pathTolerance)
    /\ UNCHANGED <<path, pathTolerance, traced, keyVars, gridVars, probe,
                   sceneVars, extraVars>>

NextSimplify == Simplify

SpecSimplify == InitSimplify /\ [][NextSimplify]_vars

(***************************************************************************)
(* Image objects and their bodies. A body is a record of its shape         *)
(* ("accurate": the compound body of createAccurateImageBody, "rectangle": *)
(* Matter.Bodies.rectangle), its world position and its angle; an angle is *)
(* a whole number of steps. Whether createAccurateImageBody throws is an   *)
(* input of every path that calls it.                                      *)
(***************************************************************************)
\* createAndPositionImageBody when createAccurateImageBody returns.
createAndPositionImageBody(x, y, rotation) ==
    [shape |-> "accurate", x |-> x, y |-> y, angle |-> rotation]

\* Matter.Bodies.rectangle(x, y, width, height, ...): the body of a catch
\* block.
catchRectangle(x, y) ==
    [shape |-> "rectangle", x |-> x, y |-> y, angle |-> 0]

\* try { createAndPositionImageBody } catch { Matter.Bodies.rectangle }
bodyOrRectangle(x, y, rotation, throws) ==
    IF throws THEN catchRectangle(x, y)
    ELSE createAndPositionImageBody(x, y, rotation)

addImageObject(name, x, y, throws) ==
    [text |-> name, kind |-> "none", x |-> x, y |-> y, rotation |-> 0,
     isDraggable |-> TRUE, body |-> bodyOrRectangle(x, y, 0, throws)]

addCachedImageObject(name, x, y, rotation, throws) ==
    [text |-> name, kind |-> "none", x |-> x, y |-> y, rotation |-> 0,
     isDraggable |-> TRUE, body |-> bodyOrRectangle(x, y, rotation, throws)]

createImageCupAt(x, y, throws) ==
    [text |-> "cup", kind |-> "none", x |-> x, y |-> y, rotation |-> 0,
     isDraggable |-> FALSE, body |-> bodyOrRectangle(x, y, 0, throws)]

createImageWastebasketAt(x, y, throws) ==
    [text |-> "wastebasket", kind |-> "none", x |-> x, y |-> y,
     rotation |-> 0, isDraggable |-> FALSE,
     body |-> bodyOrRectangle(x, y, 0, throws)]

(***************************************************************************)
(* The scene of src/public/game.js: the images load, placeImages waits for *)
(* them, the scene is placed and the first marble is spawned; marbles fall *)
(* off the screen and are replaced, and one may reach the cup.             *)
(***************************************************************************)
MaxPolls == 3
MaxMarbles == 3
MaxCupCalls == 3

\* Three of the fourteen images of loadImages: one that addCachedImageObject
\* places, the wastebasket and the cup.
imagesToLoad == {"banana", "wastebasket", "cup"}
\* The name of an image the player adds (createGeneratedObject).
generatedName == "generated"

\* The keys of this.imageCache.
imageCacheKeys == { n \in DOMAIN loadStatus : loadStatus[n] = "cached" }

\* this.imageCache.size < 14, fourteen being the number of images to load.
imagesMissing == Cardinality(imageCacheKeys) < Cardinality(imagesToLoad)

hasObject(text) == \E i \in 1..Len(gameObjects) : gameObjects[i].text = text

\* createDefaultScene: every builder returns null for an image that is not
\* cached; throwing names the images whose body synthesis throws.
createDefaultScene(objects, cached, throwing) ==
    objects
      \o (IF "banana" \in cached
          THEN <<addCachedImageObject("banana", 2, 1, 1, "banana" \in throwing)>>
          ELSE <<>>)
      \o (IF "wastebasket" \in cached
          THEN <<createImageWastebasketAt(0, 2, "wastebasket" \in throwing)>>
          ELSE <<>>)
      \o (IF "cup" \in cached
          THEN <<createImageCupAt(3, 2, "cup" \in throwing)>>
          ELSE <<>>)

\* spawnMultipleMarbles(count): count calls of spawnMarble, numbered from
\* first.
spawnMultipleMarbles(g, first, count) ==
    [g EXCEPT !.marbles = @ \cup (first..(first + count - 1))]

\* marbleInCup with neither the gameOver test nor the phase test.
marbleInCupEveryHit(g, marbleObj) ==
    [g EXCEPT !.score = @ + 10,
              !.marbles = @ \ {marbleObj},
              !.phase = "final",
              !.gameOver = TRUE,
              !.targetMarbleCount = 0]

marbleInCup(g, marbleObj) ==
    IF g.gameOver THEN g
    ELSE IF g.phase = "single"
         THEN [g EXCEPT !.score = @ + 10,
                        !.marbles = @ \ {marbleObj},
                        !.phase = "final",
                        !.gameOver = TRUE,
                        !.targetMarbleCount = 0]
         ELSE g

InitScene ==
    /\ loadStatus =
         [n \in imagesToLoad \cup {generatedName} |->
            IF n \in imagesToLoad THEN "loading" ELSE "unrequested"]
    /\ loggedErrors = {}
    /\ timers = {"placeImages"}
    /\ polls = 0
    /\ MarblesIdle
    /\ BuildIdle
    /\ KeyIdle
    /\ GridIdle
    /\ ProbeIdle
    /\ OutlineIdle
    /\ ExtraIdle

\* img.onload of loadAndProcessImage for an image of loadImages.
ImageLoaded(n) ==
    /\ n \in DOMAIN loadStatus
    /\ n # generatedName
    /\ loadStatus[n] = "loading"
    /\ loadStatus' = [loadStatus EXCEPT ![n] = "cached"]
    /\ UNCHANGED <<loggedErrors, timers, polls, marbleVars, buildVars,
                   keyVars, gridVars, probe, outlineVars,
                   extraVars>>

\* img.onerror: the promise is rejected and the caller logs the failure.
ImageFailed(n) ==
    /\ n \in DOMAIN loadStatus
    /\ loadStatus[n] = "loading"
    /\ loadStatus' = [loadStatus EXCEPT ![n] = "failed"]
    /\ loggedErrors' = loggedErrors \cup {n}
    /\ UNCHANGED <<timers, polls, marbleVars, buildVars,
                   keyVars, gridVars, probe, outlineVars,
                   extraVars>>

\* createGeneratedObject calls addImageObject, which starts the load.
RequestImageObject ==
    /\ generatedName \in DOMAIN loadStatus
    /\ loadStatus[generatedName] = "unrequested"
    /\ loadStatus' = [loadStatus EXCEPT ![generatedName] = "loading"]
    /\ UNCHANGED <<loggedErrors, timers, polls, marbleVars, buildVars,
                   keyVars, gridVars, probe, outlineVars,
                   extraVars>>

\* addImageObject after its await: the image is cached and the object built.
AddImageObject(throws) ==
    /\ generatedName \in DOMAIN loadStatus
    /\ loadStatus[generatedName] = "loading"
    /\ loadStatus' = [loadStatus EXCEPT ![generatedName] = "cached"]
    /\ gameObjects' =
         Append(gameObjects, addImageObject(generatedName, 2, 1, throws))
    /\ UNCHANGED <<loggedErrors, timers, polls, marbleVars, escaped,
                   keyVars, gridVars, probe, outlineVars,
                   extraVars>>

\* placeImages: re-armed while images are missing, else loadSceneLayout,
\* which places the scene and spawns the first marble.
PlaceImages ==
    /\ "placeImages" \in timers
    /\ IF imagesMissing
       THEN /\ polls' = (polls + 1) % (MaxPolls + 1)
            /\ UNCHANGED <<timers, gameObjects, game, nextMarble>>
       ELSE /\ timers' = timers \ {"placeImages"}
            /\ \E throwing \in SUBSET (imageCacheKeys \cap imagesToLoad) :
                 gameObjects' =
                   createDefaultScene(gameObjects, imageCacheKeys, throwing)
            /\ game' = spawnMultipleMarbles(game, nextMarble, 1)
            /\ nextMarble' = nextMarble + 1
            /\ UNCHANGED polls
    /\ UNCHANGED <<loadStatus, loggedErrors, respawnTimers, cupCalls, escaped,
                   keyVars, gridVars, probe, outlineVars,
                   extraVars>>

\* A respawn for every removal, whatever the target.
respawnDeficitAlwaysOne(targetMarbleCount, marblesLength) == 1

\* Math.max(0, this.targetMarbleCount - this.marbles.length)
respawnDeficit(targetMarbleCount, marblesLength) ==
    IF targetMarbleCount - marblesLength > 0
    THEN targetMarbleCount - marblesLength
    ELSE 0

\* checkMarblesOffScreen in a frame in which the marbles of off are below the
\* canvas.
CheckMarblesOffScreen(off) ==
    /\ off # {}
    /\ off \subseteq game.marbles
    /\ LET kept == game.marbles \ off
           deficit == respawnDeficit(game.targetMarbleCount, Cardinality(kept))
       IN  /\ game' = [game EXCEPT !.marbles = kept]
           /\ respawnTimers' =
                IF deficit > 0 THEN Append(respawnTimers, deficit)
                ELSE respawnTimers
    /\ UNCHANGED <<nextMarble, cupCalls, loadVars, buildVars,
                   keyVars, gridVars, probe, outlineVars,
                   extraVars>>

\* The 500 ms timer of checkMarblesOffScreen fires.
RespawnFires ==
    /\ respawnTimers # <<>>
    /\ nextMarble + Head(respawnTimers) - 1 <= MaxMarbles
    /\ game' = spawnMultipleMarbles(game, nextMarble, Head(respawnTimers))
    /\ nextMarble' = nextMarble + Head(respawnTimers)
    /\ respawnTimers' = Tail(respawnTimers)
    /\ UNCHANGED <<cupCalls, loadVars, buildVars,
                   keyVars, gridVars, probe, outlineVars,
                   extraVars>>

\* handleCollisions finds a pair of a marble and the cup's top sensor. The
\* pair may name any marble that was spawned, one that this.marbles no
\* longer holds included.
CupSensorContact(marbleObj) ==
    /\ hasObject("cup")
    /\ marbleObj \in 1..(nextMarble - 1)
    /\ cupCalls < MaxCupCalls
    /\ game' = marbleInCup(game, marbleObj)
    /\ cupCalls' = cupCalls + 1
    /\ UNCHANGED <<nextMarble, respawnTimers, loadVars, buildVars,
                   keyVars, gridVars, probe, outlineVars,
                   extraVars>>

NextScene ==
    \/ \E n \in imagesToLoad : ImageLoaded(n)
    \/ \E n \in imagesToLoad \cup {generatedName} : ImageFailed(n)
    \/ RequestImageObject
    \/ \E throws \in BOOLEAN : AddImageObject(throws)
    \/ PlaceImages
    \/ \E off \in SUBSET (1..MaxMarbles) : CheckMarblesOffScreen(off)
    \/ RespawnFires
    \/ \E m \in 1..MaxMarbles : CupSensorContact(m)

SpecScene == InitScene /\ [][NextScene]_vars

\* The browser settles every image request and fires every armed timer.
SpecSceneLive ==
    /\ SpecScene
    /\ \A n \in imagesToLoad : WF_vars(ImageLoaded(n) \/ ImageFailed(n))
    /\ WF_vars(PlaceImages)
    /\ WF_vars(RespawnFires)

(***************************************************************************)
(* The scene of src/game.js: createInitialScene calls createDefaultBanana  *)
(* and createRibbonCable, which wait for their images; the player drags    *)
(* and rotates the objects, and the key R rebuilds their bodies.           *)
(***************************************************************************)
MaxDragX == 1
MaxDragY == 0

\* The images src/game.js loads.
gameJsImagesToLoad == {"banana", "ribbon_cable"}
DragPositions == (0..MaxDragX) \X (0..MaxDragY)
Angles == {-1, 0, 1}

\* createDefaultBanana once the banana image is cached.
createDefaultBanana(throws) ==
    [text |-> "banana", kind |-> "banana", x |-> 1, y |-> 0, rotation |-> 0,
     isDraggable |-> TRUE, body |-> bodyOrRectangle(1, 0, 0, throws)]

\* createRibbonCable once its image is cached and createAccurateImageBody
\* returns.
createRibbonCable ==
    [text |-> "ribbon_cable", kind |-> "ribbon_cable", x |-> 0, y |-> 0,
     rotation |-> -1, isDraggable |-> TRUE,
     body |-> createAndPositionImageBody(0, 0, -1)]

\* The rotation rebuildAllImageCollisions hands to the new body: 0 for the
\* banana, the object's rotation for the ribbon cable.
rebuildRotation(obj) == IF obj.kind = "banana" THEN 0 ELSE obj.rotation

\* rebuildAllImageCollisions from the i-th object on; throwing names the
\* images whose body synthesis throws, which ends the forEach.
RECURSIVE rebuildFrom(_, _, _)
rebuildFrom(objects, i, throwing) ==
    IF i > Len(objects) THEN [objects |-> objects, escaped |-> FALSE]
    ELSE IF objects[i].kind \notin {"banana", "ribbon_cable"}
         THEN rebuildFrom(objects, i + 1, throwing)
         ELSE IF objects[i].text \in throwing
              THEN [objects |-> objects, escaped |-> TRUE]
              ELSE rebuildFrom(
                     [objects EXCEPT ![i].body =
                        createAndPositionImageBody(
                          objects[i].x, objects[i].y,
                          rebuildRotation(objects[i]))],
                     i + 1, throwing)

rebuildAllImageCollisions(objects, throwing) ==
    rebuildFrom(objects, 1, throwing)

InitBuild ==
    /\ loadStatus = [n \in gameJsImagesToLoad |-> "loading"]
    /\ loggedErrors = {}
    /\ timers = {"createDefaultBanana", "createRibbonCable"}
    /\ polls = 0
    /\ MarblesIdle
    /\ BuildIdle
    /\ KeyIdle
    /\ GridIdle
    /\ ProbeIdle
    /\ OutlineIdle
    /\ ExtraIdle

\* createDefaultBanana, called by createInitialScene and by its own timer.
CreateDefaultBanana(throws) ==
    /\ "createDefaultBanana" \in timers
    /\ IF "banana" \in imageCacheKeys
       THEN /\ timers' = timers \ {"createDefaultBanana"}
            /\ gameObjects' = Append(gameObjects, createDefaultBanana(throws))
            /\ UNCHANGED polls
       ELSE /\ polls' = (polls + 1) % (MaxPolls + 1)
            /\ UNCHANGED <<timers, gameObjects>>
    /\ UNCHANGED <<loadStatus, loggedErrors, marbleVars, escaped,
                   keyVars, gridVars, probe, outlineVars,
                   extraVars>>

\* createRibbonCable, called by createInitialScene and by its own timer;
\* nothing catches what createAndPositionImageBody throws.
CreateRibbonCable(throws) ==
    /\ "createRibbonCable" \in timers
    /\ IF "ribbon_cable" \in imageCacheKeys
       THEN /\ timers' = timers \ {"createRibbonCable"}
            /\ IF throws
               THEN escaped' = TRUE /\ UNCHANGED gameObjects
               ELSE /\ gameObjects' = Append(gameObjects, createRibbonCable)
                    /\ UNCHANGED escaped
            /\ UNCHANGED polls
       ELSE /\ polls' = (polls + 1) % (MaxPolls + 1)
            /\ UNCHANGED <<timers, gameObjects, escaped>>
    /\ UNCHANGED <<loadStatus, loggedErrors, marbleVars,
                   keyVars, gridVars, probe, outlineVars,
                   extraVars>>

\* handleMouseMove while dragging the i-th object to a position.
MouseMoveDragging(i, to) ==
    /\ i \in 1..Len(gameObjects)
    /\ gameObjects[i].isDraggable
    /\ gameObjects' =
         [gameObjects EXCEPT ![i].body.x = to[1], ![i].body.y = to[2],
                             ![i].x = to[1], ![i].y = to[2]]
    /\ UNCHANGED <<escaped, loadVars, marbleVars,
                   keyVars, gridVars, probe, outlineVars,
                   extraVars>>

\* handleMouseMove while rotating the i-th object to an angle.
MouseMoveRotating(i, newAngle) ==
    /\ i \in 1..Len(gameObjects)
    /\ gameObjects[i].isDraggable
    /\ gameObjects' =
         [gameObjects EXCEPT ![i].body.angle = newAngle,
                             ![i].rotation = newAngle]
    /\ UNCHANGED <<escaped, loadVars, marbleVars,
                   keyVars, gridVars, probe, outlineVars,
                   extraVars>>

\* The key R: rebuildAllImageCollisions; nothing catches what it throws.
RebuildAllImageCollisions(throwing) ==
    /\ LET result == rebuildAllImageCollisions(gameObjects, throwing)
       IN  /\ gameObjects' = result.objects
           /\ escaped' = (escaped \/ result.escaped)
    /\ UNCHANGED <<loadVars, marbleVars, keyVars, gridVars, probe,
                   outlineVars, extraVars>>

NextBuild ==
    \/ \E n \in gameJsImagesToLoad : ImageLoaded(n)
    \/ \E n \in gameJsImagesToLoad : ImageFailed(n)
    \/ \E throws \in BOOLEAN : CreateDefaultBanana(throws)
    \/ \E throws \in BOOLEAN : CreateRibbonCable(throws)
    \/ \E i \in 1..Cardinality(gameJsImagesToLoad), to \in DragPositions :
         MouseMoveDragging(i, to)
    \/ \E i \in 1..Cardinality(gameJsImagesToLoad), newAngle \in Angles :
         MouseMoveRotating(i, newAngle)
    \/ \E throwing \in SUBSET gameJsImagesToLoad :
         RebuildAllImageCollisions(throwing)

SpecBuild == InitBuild /\ [][NextBuild]_vars

(***************************************************************************)
(* The walk machine: mooreNeighborhoodTrace called on a raster with any    *)
(* solid pixel as its start.                                               *)
(***************************************************************************)
MaxWalkW == 3
MaxWalkH == 3
MaxWalkArea == 9

InitWalk ==
    /\ \E w \in 1..MaxWalkW, h \in 1..MaxWalkH :
         /\ w * h <= MaxWalkArea
         /\ sprite \in TraceRasters(w, h)
    /\ \E p \in (0..(sprite.w - 1)) \X (0..(sprite.h - 1)) :
         /\ isNonWhitePixel(sprite, p[1], p[2], sprite.w, sprite.h)
         /\ walk = [NoWalk EXCEPT !.startX = p[1], !.startY = p[2]]
    /\ forceCollisionMode = "auto"
    /\ lastCollisionGrid = NoGrid
    /\ body = NoBody
    /\ KeyIdle
    /\ ProbeIdle
    /\ OutlineIdle
    /\ SceneIdle
    /\ ExtraIdleBut("walk")

\* mooreNeighborhoodTrace(imageData, width, height, startX, startY)
MooreNeighborhoodTrace ==
    /\ walk' =
         [called |-> TRUE, startX |-> walk.startX, startY |-> walk.startY]
           @@ mooreNeighborhoodTrace(sprite, sprite.w, sprite.h,
                                     walk.startX, walk.startY)
    /\ UNCHANGED <<keyVars, gridVars, probe, outlineVars, sceneVars>>
    /\ ExtraUnchangedBut("walk")

NextWalk == MooreNeighborhoodTrace

SpecWalk == InitWalk /\ [][NextWalk]_vars

(***************************************************************************)
(* The play machine of src/public/game.js: the placed scene, the mouse and *)
(* touch handlers (touchstart, touchmove and touchend call the mouse       *)
(* handlers), the delete popover, deleteObject and the key R. Every object *)
(* carries the id it was made with and the id of its body; a rebuilt body  *)
(* gets a fresh id. A position stands for a cell of the canvas.            *)
(***************************************************************************)
MaxBodies == 5

\* An object as the builders leave it: obj.body = body, with the ids.
placed(obj, id) == obj @@ [id |-> id, bodyId |-> id]

objectIds(objects) == { objects[i].id : i \in 1..Len(objects) }

\* this.gameObjects.indexOf(targetObject), 0 for -1.
indexOf(objects, id) ==
    IF id \in objectIds(objects)
    THEN CHOOSE i \in 1..Len(objects) : objects[i].id = id
    ELSE 0

\* A splice that removes nothing.
spliceNothing(objects, index) == objects

\* array.splice(index, 1)
splice(objects, index) ==
    SubSeq(objects, 1, index - 1) \o SubSeq(objects, index + 1, Len(objects))

\* The object a reference (dragTarget, the popover's targetObject) points
\* to, in the scene or spliced out of it.
referenced(id) ==
    IF id \in objectIds(gameObjects)
    THEN gameObjects[indexOf(gameObjects, id)]
    ELSE CHOOSE o \in removedObjects : o.id = id

\* isOverWastebasket(x, y): within reach of this.imageWastebasketObj.
isOverWastebasket(objects, x, y) ==
    \E i \in 1..Len(objects) :
        /\ objects[i].text = "wastebasket"
        /\ x = objects[i].x
        /\ y = objects[i].y

\* Where a drag can take a body: a free spot and the wastebasket's spot.
dropPositions == {<<1, 0>>, <<0, 2>>}
\* The angles a rotation can give a body.
turnAngles == {0, 1}

\* The spliced-out objects that dragTarget or the popover still reference;
\* the others are garbage.
stillReferenced(objects, target, popover) ==
    { o \in objects : o.id \in {target, popover} }

\* handleMouseMove applied to the drag target: dragging sets the body's
\* position only, rotating sets the body's angle and the object's rotation.
mouseMoved(obj, to, newAngle) ==
    IF isDragging
    THEN [obj EXCEPT !.body.x = to[1], !.body.y = to[2]]
    ELSE IF isRotating
         THEN [obj EXCEPT !.body.angle = newAngle, !.rotation = newAngle]
         ELSE obj

\* rebuildAllImageCollisions over the world, from the i-th object on: only
\* the kinds 'banana' and 'ribbon_cable' are rebuilt; a throw ends the
\* forEach.
RECURSIVE rebuildWorldFrom(_, _, _)
rebuildWorldFrom(st, i, throws) ==
    IF i > Len(st.objects) THEN st
    ELSE IF st.objects[i].kind \notin {"banana", "ribbon_cable"}
         THEN rebuildWorldFrom(st, i + 1, throws)
         ELSE IF throws
              THEN [st EXCEPT !.escaped = TRUE]
              ELSE rebuildWorldFrom(
                     [st EXCEPT
                        !.objects[i].body =
                            createAndPositionImageBody(
                              st.objects[i].x, st.objects[i].y,
                              rebuildRotation(st.objects[i])),
                        !.objects[i].bodyId = st.nextBody,
                        !.world = (@ \ {st.objects[i].bodyId})
                                    \cup {st.nextBody},
                        !.bodyGameObject = Append(@, st.objects[i].id),
                        !.nextBody = @ + 1,
                        !.rebuilt = @ \cup {st.objects[i].id}],
                     i + 1, throws)

\* The scene createDefaultScene places once every image is cached.
InitPlay ==
    /\ LET objs == createDefaultScene(<<>>, imagesToLoad, {})
       IN  /\ gameObjects = [i \in 1..Len(objs) |-> placed(objs[i], i)]
           /\ world = 1..Len(objs)
           /\ bodyGameObject = [i \in 1..Len(objs) |-> i]
           /\ nextBody = Len(objs) + 1
    /\ isDragging = FALSE
    /\ isRotating = FALSE
    /\ dragTarget = 0
    /\ deletePopover = 0
    /\ removedObjects = {}
    /\ lastRebuild = NoRebuild
    /\ escaped = FALSE
    /\ loadStatus = <<>>
    /\ loggedErrors = {}
    /\ timers = {}
    /\ polls = 0
    /\ MarblesIdle
    /\ KeyIdle
    /\ GridIdle
    /\ ProbeIdle
    /\ OutlineIdle
    /\ ExtraIdleBut("play")

\* What no step of the play machine touches.
playRest == <<keyVars, gridVars, probe, outlineVars, loadVars, marbleVars>>

\* One more object and its body: obj.body = body, body.gameObject = obj,
\* gameObjects.push(obj), World.add(world, body).
PushObject(obj) ==
    /\ nextBody <= MaxBodies
    /\ gameObjects' = Append(gameObjects, placed(obj, nextBody))
    /\ world' = world \cup {nextBody}
    /\ bodyGameObject' = Append(bodyGameObject, nextBody)
    /\ nextBody' = nextBody + 1
    /\ UNCHANGED <<isDragging, isRotating, dragTarget, deletePopover,
                   removedObjects, lastRebuild, escaped, playRest>>
    /\ ExtraUnchangedBut("play")

\* addImageObject for the image the player adds (createGeneratedObject).
PlayAddImageObject ==
    /\ ~hasObject(generatedName)
    /\ \A o \in removedObjects : o.text # generatedName
    /\ PushObject(addImageObject(generatedName, 1, 0, FALSE))

\* createDefaultBanana, the one builder of an object of kind 'banana'
\* (createInitialScene of src/game.js calls it).
PlayCreateDefaultBanana ==
    /\ \A i \in 1..Len(gameObjects) : gameObjects[i].kind # "banana"
    /\ \A o \in removedObjects : o.kind # "banana"
    /\ PushObject(createDefaultBanana(FALSE))

\* handleMouseDown: hit is the first draggable object under the pointer (0
\* when there is none), inDragZone whether distFromCenter < dragZoneRadius.
HandleMouseDown(hit, inDragZone) ==
    /\ IF /\ hit \in objectIds(gameObjects)
          /\ gameObjects[indexOf(gameObjects, hit)].isDraggable
       THEN /\ dragTarget' = hit
            /\ IF inDragZone
               THEN isDragging' = TRUE /\ UNCHANGED isRotating
               ELSE isRotating' = TRUE /\ UNCHANGED isDragging
       ELSE UNCHANGED <<isDragging, isRotating, dragTarget>>
    /\ UNCHANGED <<deletePopover, world, bodyGameObject, nextBody,
                   removedObjects, lastRebuild, buildVars, playRest>>
    /\ ExtraUnchangedBut("play")

\* handleMouseMove
HandleMouseMove(to, newAngle) ==
    /\ IF dragTarget # 0
       THEN /\ gameObjects' =
                 [i \in 1..Len(gameObjects) |->
                    IF gameObjects[i].id = dragTarget
                    THEN mouseMoved(gameObjects[i], to, newAngle)
                    ELSE gameObjects[i]]
            /\ removedObjects' =
                 { IF o.id = dragTarget THEN mouseMoved(o, to, newAngle)
                   ELSE o : o \in removedObjects }
       ELSE UNCHANGED <<gameObjects, removedObjects>>
    /\ UNCHANGED <<isDragging, isRotating, dragTarget, deletePopover, world,
                   bodyGameObject, nextBody, lastRebuild, escaped, playRest>>
    /\ ExtraUnchangedBut("play")

\* handleMouseUp: a drag that ends over the wastebasket opens the delete
\* popover (showDeleteConfirmation returns at once when one is open).
HandleMouseUp ==
    /\ IF /\ dragTarget # 0
          /\ isDragging
          /\ isOverWastebasket(gameObjects, referenced(dragTarget).body.x,
                               referenced(dragTarget).body.y)
          /\ deletePopover = 0
       THEN deletePopover' = dragTarget
       ELSE UNCHANGED deletePopover
    /\ isDragging' = FALSE
    /\ isRotating' = FALSE
    /\ dragTarget' = 0
    /\ removedObjects' = stillReferenced(removedObjects, 0, deletePopover')
    /\ UNCHANGED <<world, bodyGameObject, nextBody, lastRebuild, buildVars,
                   playRest>>
    /\ ExtraUnchangedBut("play")

\* cancelInteractionDueToBoundary, called by handleCollisions when the body
\* of the drag target touches a boundary sensor during an interaction.
CancelInteractionDueToBoundary ==
    /\ isDragging \/ isRotating
    /\ dragTarget # 0
    /\ referenced(dragTarget).bodyId \in world
    /\ isDragging' = FALSE
    /\ isRotating' = FALSE
    /\ dragTarget' = 0
    /\ removedObjects' = stillReferenced(removedObjects, 0, deletePopover)
    /\ UNCHANGED <<deletePopover, world, bodyGameObject, nextBody,
                   lastRebuild, buildVars, playRest>>
    /\ ExtraUnchangedBut("play")

\* The popover's Delete button: deleteObject(targetObject), then
\* hideDeleteConfirmation.
ConfirmDelete ==
    /\ deletePopover # 0
    /\ LET targetObject == referenced(deletePopover)
           index == indexOf(gameObjects, deletePopover)
       IN  /\ world' = world \ {targetObject.bodyId}
           /\ IF index > 0
              THEN gameObjects' = splice(gameObjects, index)
              ELSE UNCHANGED gameObjects
           /\ removedObjects' =
                stillReferenced(removedObjects \cup {targetObject},
                                dragTarget, 0)
    /\ deletePopover' = 0
    /\ UNCHANGED <<isDragging, isRotating, dragTarget, bodyGameObject,
                   nextBody, lastRebuild, escaped, playRest>>
    /\ ExtraUnchangedBut("play")

\* The popover's Cancel button: hideDeleteConfirmation.
CancelDelete ==
    /\ deletePopover # 0
    /\ deletePopover' = 0
    /\ removedObjects' = stillReferenced(removedObjects, dragTarget, 0)
    /\ UNCHANGED <<isDragging, isRotating, dragTarget, world, bodyGameObject,
                   nextBody, lastRebuild, buildVars, playRest>>
    /\ ExtraUnchangedBut("play")

\* The key R: rebuildAllImageCollisions; nothing catches what it throws.
PlayRebuildAllImageCollisions(throws) ==
    /\ nextBody <= MaxBodies
    /\ LET result ==
             rebuildWorldFrom(
               [objects |-> gameObjects, world |-> world,
                bodyGameObject |-> bodyGameObject, nextBody |-> nextBody,
                rebuilt |-> {}, escaped |-> FALSE], 1, throws)
       IN  /\ gameObjects' = result.objects
           /\ world' = result.world
           /\ bodyGameObject' = result.bodyGameObject
           /\ nextBody' = result.nextBody
           /\ escaped' = (escaped \/ result.escaped)
           /\ lastRebuild' =
                [called |-> TRUE,
                 skipped |->
                   { gameObjects[i].text :
                       i \in { j \in 1..Len(gameObjects) :
                                 gameObjects[j].id \notin result.rebuilt } }]
    /\ UNCHANGED <<isDragging, isRotating, dragTarget, deletePopover,
                   removedObjects, playRest>>
    /\ ExtraUnchangedBut("play")

\* Where the play machine lets a drag take a body: onto the wastebasket.
\* A body that was not dragged is at a spot off the wastebasket.
wastebasketSpots ==
    { p \in dropPositions :
        isOverWastebasket(createDefaultScene(<<>>, imagesToLoad, {}),
                          p[1], p[2]) }

NextPlay ==
    \/ PlayAddImageObject
    \/ PlayCreateDefaultBanana
    \/ \E hit \in 0..MaxBodies, inDragZone \in BOOLEAN :
         HandleMouseDown(hit, inDragZone)
    \/ \E to \in wastebasketSpots, newAngle \in turnAngles :
         HandleMouseMove(to, newAngle)
    \/ HandleMouseUp
    \/ CancelInteractionDueToBoundary
    \/ ConfirmDelete
    \/ CancelDelete
    \/ \E throws \in BOOLEAN : PlayRebuildAllImageCollisions(throws)

SpecPlay == InitPlay /\ [][NextPlay]_vars

(***************************************************************************)
(* The layout machine of src/public/game.js: loadSceneLayout at startup    *)
(* (every image is cached by then, placeImages waits for that), drags and  *)
(* rotations, saveSceneLayout (Ctrl+Shift+S) with the copy of its console  *)
(* output to sceneLayout.json, and a reload of the page.                   *)
(***************************************************************************)
\* name.toUpperCase() and name.toLowerCase() on the names of the model.
upperCaseOf ==
    [banana |-> "BANANA", cup |-> "CUP", wastebasket |-> "WASTEBASKET"]
toUpperCase(name) ==
    IF name \in DOMAIN upperCaseOf THEN upperCaseOf[name] ELSE name
toLowerCase(name) ==
    IF \E n \in DOMAIN upperCaseOf : upperCaseOf[n] = name
    THEN CHOOSE n \in DOMAIN upperCaseOf : upperCaseOf[n] = name
    ELSE name

\* The fields of an image object that saveSceneLayout reads, added to what
\* the builder made: text is name.toUpperCase(), the body is static.
layoutObject(obj, scale, isBoing) ==
    [obj EXCEPT !.text = toUpperCase(@)]
      @@ [imageScale |-> scale, isStatic |-> TRUE, isBoing |-> isBoing,
          isCup |-> obj.text = "cup",
          isWastebasket |-> obj.text = "wastebasket"]

\* createDefaultScene with the fields saveSceneLayout reads.
layoutDefaultScene(objects, throwing) ==
    LET made == createDefaultScene(<<>>, imagesToLoad, throwing)
    IN  objects \o [i \in 1..Len(made) |-> layoutObject(made[i], 1, FALSE)]

\* One entry of layout.objects as saveSceneLayout writes it.
layoutEntry(obj) ==
    [name |-> obj.text, x |-> obj.body.x, y |-> obj.body.y,
     rotation |-> obj.body.angle, scale |-> obj.imageScale,
     isStatic |-> obj.isStatic,
     specialProperties |->
       [isBoing |-> obj.isBoing, isWastebasket |-> obj.isWastebasket,
        isCup |-> obj.isCup]]

isNotMarble(obj) == obj.text # "marble"

\* saveSceneLayout: the objects of the document.
saveSceneLayout(objects) ==
    LET kept == SelectSeq(objects, isNotMarble)
    IN  [i \in 1..Len(kept) |-> layoutEntry(kept[i])]

\* The object loadSceneLayout makes of one entry.
loadedObject(objData, throwing) ==
    IF objData.specialProperties.isCup
    THEN layoutObject(createImageCupAt(objData.x, objData.y,
                                       "cup" \in throwing), 1, FALSE)
    ELSE IF objData.specialProperties.isWastebasket
         THEN layoutObject(
                createImageWastebasketAt(objData.x, objData.y,
                                         "wastebasket" \in throwing),
                1, FALSE)
         ELSE layoutObject(
                addCachedImageObject(
                  toLowerCase(objData.name), objData.x, objData.y,
                  objData.rotation, toLowerCase(objData.name) \in throwing),
                objData.scale, objData.specialProperties.isBoing)

\* The for loop of loadSceneLayout from the i-th entry on: an entry without
\* specialProperties throws a TypeError, which ends the loop.
RECURSIVE loadEntriesFrom(_, _, _, _)
loadEntriesFrom(entries, i, objects, throwing) ==
    IF i > Len(entries) THEN [objects |-> objects, threw |-> FALSE]
    ELSE IF "specialProperties" \notin DOMAIN entries[i]
         THEN [objects |-> objects, threw |-> TRUE]
         ELSE loadEntriesFrom(
                entries, i + 1,
                Append(objects, loadedObject(entries[i], throwing)),
                throwing)

\* loadSceneLayout: the scene it leaves and whether createDefaultScene ran.
\* A response that is not ok gives the default scene; a failed fetch, a
\* document that does not parse and a throw of the loop land in the catch
\* block, which calls createDefaultScene on the scene as it is.
loadSceneLayout(file, throwing) ==
    IF file.status \in {"absent", "networkError", "invalidJson"}
    THEN [objects |-> layoutDefaultScene(<<>>, throwing),
          result |-> "default"]
    ELSE LET loop == loadEntriesFrom(file.objects, 1, <<>>, throwing)
         IN  IF loop.threw
             THEN [objects |-> layoutDefaultScene(loop.objects, throwing),
                   result |-> "default"]
             ELSE [objects |-> loop.objects, result |-> "layout"]

\* Entries of a sceneLayout.json that was not written by this session.
entryOf(name, x, y, rotation, scale, isBoing) ==
    [name |-> name, x |-> x, y |-> y, rotation |-> rotation,
     scale |-> scale, isStatic |-> TRUE,
     specialProperties |->
       [isBoing |-> isBoing, isWastebasket |-> name = "WASTEBASKET",
        isCup |-> name = "CUP"]]
\* An entry a hand edit left without its specialProperties.
brokenEntry == [name |-> "BANANA", x |-> 1, y |-> 0]

givenLayouts ==
    { [status |-> "absent", written |-> FALSE, objects |-> <<>>],
      [status |-> "networkError", written |-> FALSE, objects |-> <<>>],
      [status |-> "invalidJson", written |-> FALSE, objects |-> <<>>],
      [status |-> "ok", written |-> FALSE,
       objects |-> <<entryOf("BANANA", 1, 0, 1, 2, TRUE),
                     entryOf("WASTEBASKET", 0, 2, 0, 1, FALSE),
                     entryOf("CUP", 3, 2, 0, 1, FALSE)>>],
      [status |-> "ok", written |-> FALSE,
       objects |-> <<entryOf("CUP", 3, 2, 0, 1, FALSE),
                     entryOf("BANANA", 2, 1, 0, 1, FALSE),
                     brokenEntry>>],
      [status |-> "ok", written |-> FALSE, objects |-> <<brokenEntry>>] }

\* The images whose body synthesis may throw.
throwers == {"banana"}

InitLayout ==
    /\ sceneLayout \in givenLayouts
    /\ throwingImages \in SUBSET throwers
    /\ savedScene = <<>>
    /\ started = "no"
    /\ loadResult = "none"
    /\ SceneIdle
    /\ KeyIdle
    /\ GridIdle
    /\ ProbeIdle
    /\ OutlineIdle
    /\ ExtraIdleBut("layout")

\* What no step of the layout machine touches.
layoutRest ==
    <<keyVars, gridVars, probe, outlineVars, loadVars, respawnTimers,
      cupCalls, escaped>>

\* loadSceneLayout, called by placeImages once every image is cached; it
\* ends with spawnMultipleMarbles(1) on either path.
LoadSceneLayout ==
    /\ started = "no"
    /\ LET loaded == loadSceneLayout(sceneLayout, throwingImages)
       IN  /\ gameObjects' = loaded.objects
           /\ loadResult' = loaded.result
    /\ game' = spawnMultipleMarbles(game, nextMarble, 1)
    /\ nextMarble' = nextMarble + 1
    /\ started' = "loaded"
    /\ UNCHANGED <<sceneLayout, savedScene, throwingImages, layoutRest>>
    /\ ExtraUnchangedBut("layout")

\* handleMouseMove while the i-th object is dragged.
LayoutDrag(i, to) ==
    /\ started # "no"
    /\ i \in 1..Len(gameObjects)
    /\ gameObjects[i].isDraggable
    /\ gameObjects' =
         [gameObjects EXCEPT ![i].body.x = to[1], ![i].body.y = to[2]]
    /\ started' = "edited"
    /\ UNCHANGED <<sceneLayout, savedScene, loadResult, throwingImages,
                   game, nextMarble, layoutRest>>
    /\ ExtraUnchangedBut("layout")

\* handleMouseMove while the i-th object is rotated.
LayoutRotate(i, newAngle) ==
    /\ started # "no"
    /\ i \in 1..Len(gameObjects)
    /\ gameObjects[i].isDraggable
    /\ gameObjects' =
         [gameObjects EXCEPT ![i].body.angle = newAngle,
                             ![i].rotation = newAngle]
    /\ started' = "edited"
    /\ UNCHANGED <<sceneLayout, savedScene, loadResult, throwingImages,
                   game, nextMarble, layoutRest>>
    /\ ExtraUnchangedBut("layout")

\* Ctrl+Shift+S: saveSceneLayout logs the document, and the document is
\* copied to public/sceneLayout.json as the log asks.
SaveSceneLayout ==
    /\ started # "no"
    /\ sceneLayout' =
         [status |-> "ok", written |-> TRUE,
          objects |-> saveSceneLayout(gameObjects)]
    /\ savedScene' = gameObjects
    /\ UNCHANGED <<started, loadResult, throwingImages, gameObjects, game,
                   nextMarble, layoutRest>>
    /\ ExtraUnchangedBut("layout")

\* The page is loaded again: the constructor's state, the same images.
ReloadPage ==
    /\ started # "no"
    /\ gameObjects' = <<>>
    /\ game' = NewGame
    /\ nextMarble' = 1
    /\ started' = "no"
    /\ loadResult' = "none"
    /\ UNCHANGED <<sceneLayout, savedScene, throwingImages, layoutRest>>
    /\ ExtraUnchangedBut("layout")

NextLayout ==
    \/ LoadSceneLayout
    \/ \E i \in 1..Len(gameObjects), to \in dropPositions :
         LayoutDrag(i, to)
    \/ \E i \in 1..Len(gameObjects), newAngle \in turnAngles :
         LayoutRotate(i, newAngle)
    \/ SaveSceneLayout
    \/ ReloadPage

SpecLayout == InitLayout /\ [][NextLayout]_vars

(***************************************************************************)
(* The generate machine of src/public/game.js (src/unnamed/part_000 has    *)
(* the same code): generateObject calls createGeneratedObject, which       *)
(* awaits the image API and the image load. A description is a sequence of *)
(* characters, a character a number.                                       *)
(***************************************************************************)
MaxCalls == 2
MaxDescription == 12
\* description.substring(0, 10)
textLimit == 10

\* The description of n characters.
description(n) == [i \in 1..n |-> i]
\* The lengths of the descriptions: short, just at the limit, beyond it.
descriptionLengths == {1, textLimit, MaxDescription}

\* A substring that keeps the whole string.
substringWhole(s, from, to) == s

\* s.substring(from, to) for 0 <= from <= to.
substring(s, from, to) ==
    SubSeq(s, from + 1, IF to < Len(s) THEN to ELSE Len(s))

\* What a description leads createGeneratedObject to: a URL in it, a
\* built-in keyword whose image is cached, or neither.
descriptionKinds == {"url", "keyword", "plain"}

\* What the await of fetch('/api/generate-image') and of res.json() can
\* give: a rejected fetch, a response that is not ok (400 without an API
\* key, 404 from a static server, 500, 502), an ok response that is not
\* JSON, one without imageUrl, one with it.
fetchOutcomes ==
    {"fetchError", "status400", "status404", "status500", "status502",
     "okNotJson", "okNoImageUrl", "okImageUrl"}

\* The fallback of createGeneratedObject: a static text object.
fallbackTextObject(text) ==
    [text |-> substring(text, 0, textLimit), kind |-> "none", x |-> 1,
     y |-> 0, rotation |-> 0, isDraggable |-> TRUE, isText |-> TRUE,
     isStatic |-> TRUE, body |-> catchRectangle(1, 0)]

\* The object addImageObject makes of a loaded image.
generatedImageObject(name, throws) ==
    addImageObject(name, 1, 0, throws)
      @@ [isText |-> FALSE, isStatic |-> TRUE]

InitGenerate ==
    /\ calls = <<>>
    /\ SceneIdle
    /\ KeyIdle
    /\ GridIdle
    /\ ProbeIdle
    /\ OutlineIdle
    /\ ExtraIdleBut("generate")

\* What no step of the generate machine touches.
generateRest ==
    <<keyVars, gridVars, probe, outlineVars, loadVars, marbleVars, escaped>>

\* generateObject with a description that is not empty: createGeneratedObject
\* runs up to its first await.
GenerateObject(n, kind) ==
    /\ Len(calls) < MaxCalls
    /\ calls' =
         Append(calls,
                [description |-> description(n), kind |-> kind,
                 stage |-> IF kind = "plain" THEN "fetch" ELSE "image",
                 failed |-> FALSE, added |-> <<>>, threw |-> FALSE])
    /\ UNCHANGED <<gameObjects, generateRest>>
    /\ ExtraUnchangedBut("generate")

\* The call c goes on after the fetch settled: the try block up to the
\* await of addImageObject, or the catch block and the text fallback.
FetchSettles(c, outcome) ==
    /\ c \in 1..Len(calls)
    /\ calls[c].stage = "fetch"
    /\ IF outcome = "okImageUrl"
       THEN /\ calls' = [calls EXCEPT ![c].stage = "image"]
            /\ UNCHANGED gameObjects
       ELSE /\ gameObjects' =
                 Append(gameObjects,
                        fallbackTextObject(calls[c].description))
            /\ calls' =
                 [calls EXCEPT ![c].stage = "done", ![c].failed = TRUE,
                               ![c].added = Append(@, Len(gameObjects) + 1)]
    /\ UNCHANGED generateRest
    /\ ExtraUnchangedBut("generate")

\* The call c goes on after loadAndProcessImage settled. A loaded image
\* becomes an image object (a throw of the body synthesis is caught in
\* addImageObject). A failed load is caught in the try block of the API
\* path and gives the text fallback; on the URL and keyword paths nothing
\* catches it before generateObject.
ImageSettles(c, loads, throws) ==
    /\ c \in 1..Len(calls)
    /\ calls[c].stage = "image"
    /\ IF loads
       THEN /\ gameObjects' =
                 Append(gameObjects,
                        generatedImageObject(generatedName, throws))
            /\ calls' =
                 [calls EXCEPT ![c].stage = "done",
                               ![c].added = Append(@, Len(gameObjects) + 1)]
       ELSE IF calls[c].kind = "plain"
            THEN /\ gameObjects' =
                      Append(gameObjects,
                             fallbackTextObject(calls[c].description))
                 /\ calls' =
                      [calls EXCEPT ![c].stage = "done",
                                    ![c].failed = TRUE,
                                    ![c].added =
                                        Append(@, Len(gameObjects) + 1)]
            ELSE /\ calls' =
                      [calls EXCEPT ![c].stage = "done",
                                    ![c].failed = TRUE, ![c].threw = TRUE]
                 /\ UNCHANGED gameObjects
    /\ UNCHANGED generateRest
    /\ ExtraUnchangedBut("generate")

NextGenerate ==
    \/ \E n \in descriptionLengths, kind \in descriptionKinds :
         GenerateObject(n, kind)
    \/ \E c \in 1..MaxCalls, outcome \in fetchOutcomes :
         FetchSettles(c, outcome)
    \/ \E c \in 1..MaxCalls, loads \in BOOLEAN, throws \in BOOLEAN :
         ImageSettles(c, loads, throws)

SpecGenerate == InitGenerate /\ [][NextGenerate]_vars

(***************************************************************************)
(* The server machine: POST /api/generate-image as src/server.js routes it *)
(* with express, and the serverless handlers of                            *)
(* src/api/generate-image/index.js (Gemini) and src/unnamed/part_002       *)
(* (OpenAI). A request names its handler, its method, whether the API key  *)
(* is set, what req.body holds as prompt, and what the image model does at *)
(* each call.                                                              *)
(***************************************************************************)
handlers == {"server.js", "api/generate-image", "part_002"}
methods == {"POST", "GET", "OPTIONS", "PUT"}
\* req.body.prompt: no body, no prompt field, the empty string, the number
\* 0, another number, a string that is not empty.
prompts == {"noBody", "missing", "empty", "zero", "number", "text"}
\* !prompt || typeof prompt !== 'string'
promptRejected(prompt) == prompt # "text"

\* What a call of the image model gives. Gemini: parts with an image,
\* parts with only text, no parts, no candidates, or a thrown error with
\* or without a status. OpenAI: data with an image, data without one, or
\* a thrown error.
geminiOutcomes ==
    {"image", "textAndImage", "textOnly", "noParts", "noCandidates",
     "throws429", "throwsNoStatus"}
openaiOutcomes ==
    {"image", "noImage", "throws403", "throws429", "throwsNoStatus"}

\* The catch block: status = err.status || err.response.status || 500.
errorResponse(status, modelCalls) ==
    [called |-> TRUE, status |-> status, imageUrl |-> FALSE,
     modelCalls |-> modelCalls]
\* res.status(status).json(...) or res.status(200).end() before the model.
earlyResponse(status) == errorResponse(status, 0)
\* res.json({ imageUrl, ... })
imageResponse(modelCalls) ==
    [called |-> TRUE, status |-> 200, imageUrl |-> TRUE,
     modelCalls |-> modelCalls]

\* The status the catch block answers for what one model call did.
failureStatus(outcome) ==
    IF outcome \in {"textOnly", "noParts", "noImage"} THEN 502
    ELSE IF outcome = "throws429" THEN 429
    ELSE IF outcome = "throws403" THEN 403
    ELSE 500

\* After the validation, Gemini: one generateContent call, then the loop
\* over response.candidates[0].content.parts (a TypeError without
\* candidates), then the imageUrl test.
geminiGenerate(model) ==
    IF model[1] \in {"image", "textAndImage"} THEN imageResponse(1)
    ELSE errorResponse(failureStatus(model[1]), 1)

\* After the validation, OpenAI: tryGenerate('gpt-image-1'), and
\* tryGenerate('dall-e-3') when the first throw looks forbidden.
openaiGenerate(model) ==
    IF model[1] = "image" THEN imageResponse(1)
    ELSE IF model[1] = "throws403"
         THEN IF model[2] = "image" THEN imageResponse(2)
              ELSE errorResponse(failureStatus(model[2]), 2)
         ELSE errorResponse(failureStatus(model[1]), 1)

\* The try block of the three handlers.
validateAndGenerate(req) ==
    IF ~req.apiKey THEN earlyResponse(400)
    ELSE IF promptRejected(req.prompt) THEN earlyResponse(400)
    ELSE IF req.handler = "part_002" THEN openaiGenerate(req.model)
         ELSE geminiGenerate(req.model)

\* The serverless handler: OPTIONS and the other methods come first.
handler(req) ==
    IF req.method = "OPTIONS" THEN earlyResponse(200)
    ELSE IF req.method # "POST" THEN earlyResponse(405)
    ELSE validateAndGenerate(req)

\* The methods that reach a handler: app.post hands only POST to the route
\* of src/server.js.
methodsOf(h) == IF h = "server.js" THEN {"POST"} ELSE methods

\* What the model does at the calls a handler makes: one call for Gemini,
\* a second one for OpenAI after a forbidden first.
modelOutcomes(h) ==
    IF h = "part_002"
    THEN { <<a, b>> : a \in {"throws403"}, b \in openaiOutcomes }
           \cup { <<a>> : a \in openaiOutcomes \ {"throws403"} }
    ELSE { <<a>> : a \in geminiOutcomes }

requests ==
    UNION { { [handler |-> h, method |-> m, apiKey |-> k, prompt |-> p,
               model |-> o] :
                m \in methodsOf(h), k \in BOOLEAN, p \in prompts,
                o \in modelOutcomes(h) } : h \in handlers }

InitServer ==
    /\ request = NoRequest
    /\ response = NoResponse
    /\ SceneIdle
    /\ KeyIdle
    /\ GridIdle
    /\ ProbeIdle
    /\ OutlineIdle
    /\ ExtraIdleBut("server")

\* app.post('/api/generate-image', ...) of src/server.js
AppPostGenerateImage(req) ==
    /\ req.handler = "server.js"
    /\ request' = req
    /\ response' = validateAndGenerate(req)
    /\ UNCHANGED <<keyVars, gridVars, probe, outlineVars, sceneVars>>
    /\ ExtraUnchangedBut("server")

\* export default async function handler(req, res)
Handler(req) ==
    /\ req.handler # "server.js"
    /\ request' = req
    /\ response' = handler(req)
    /\ UNCHANGED <<keyVars, gridVars, probe, outlineVars, sceneVars>>
    /\ ExtraUnchangedBut("server")

NextServer ==
    \/ \E req \in requests : AppPostGenerateImage(req)
    \/ \E req \in requests : Handler(req)

SpecServer == InitServer /\ [][NextServer]_vars

(***************************************************************************)
(* The folder machine of src/unnamed/part_000: the images load while       *)
(* scheduleFolderImagePlacement places the cached ones in a grid, at once  *)
(* and at each tick of its interval. A grid position is the pair of a      *)
(* column and a row.                                                       *)
(***************************************************************************)
\* const maxAttempts = 15
maxAttempts == 15
\* Three of the images of loadImages.
folderImages == {"banana", "pencil", "cup"}
\* Widths of the canvas that give one, two and three columns.
canvasWidths == {250, 650, 1000}
\* Where the cup is put: off the grid.
cupPosition == <<9, 9>>

\* cols = Math.max(1, Math.min(3, Math.floor(this.canvas.width / 300)))
gridCols(width) ==
    LET q == width \div 300
    IN  IF q > 3 THEN 3 ELSE IF q < 1 THEN 1 ELSE q

\* The for loop of placeAllCachedImagesInGrid from the i-th name on: the
\* cup and the placed names are skipped, the others get the cell idx.
RECURSIVE placeFrom(_, _, _, _, _, _)
placeFrom(names, i, idx, done, objects, cols) ==
    IF i > Len(names) THEN [placed |-> done, objects |-> objects]
    ELSE IF names[i] = "cup" \/ names[i] \in done
         THEN placeFrom(names, i + 1, idx, done, objects, cols)
         ELSE placeFrom(
                names, i + 1, idx + 1, done \cup {names[i]},
                Append(objects,
                       addCachedImageObject(names[i], idx % cols,
                                            idx \div cols, 0, FALSE)),
                cols)

\* placeAllCachedImagesInGrid
placeAllCachedImagesInGrid(names, done, objects, width) ==
    placeFrom(names, 1, 0, done, objects, gridCols(width))

InitFolder ==
    /\ loadStatus = [n \in folderImages |-> "loading"]
    /\ loggedErrors = {}
    /\ timers = {}
    /\ polls = 0
    /\ MarblesIdle
    /\ BuildIdle
    /\ cacheKeys = <<>>
    /\ placedFolderImages = {}
    /\ imageCupObj = FALSE
    /\ attempts = 0
    /\ interval = "none"
    /\ canvasWidth \in canvasWidths
    /\ KeyIdle
    /\ GridIdle
    /\ ProbeIdle
    /\ OutlineIdle
    /\ ExtraIdleBut("folder")

\* What no step of the folder machine touches.
folderRest ==
    <<keyVars, gridVars, probe, outlineVars, timers, polls, marbleVars,
      escaped, canvasWidth>>

\* img.onload of loadAndProcessImage: this.imageCache.set(name, ...). The
\* constructor calls loadImages and createInitialScene in one run, so no
\* load event is handled before scheduleFolderImagePlacement has run.
FolderImageLoaded(n) ==
    /\ interval # "none"
    /\ loadStatus[n] = "loading"
    /\ loadStatus' = [loadStatus EXCEPT ![n] = "cached"]
    /\ cacheKeys' = Append(cacheKeys, n)
    /\ UNCHANGED <<loggedErrors, gameObjects, placedFolderImages,
                   imageCupObj, attempts, interval, folderRest>>
    /\ ExtraUnchangedBut("folder")

\* img.onerror: the promise is rejected and loadImages logs the failure.
FolderImageFailed(n) ==
    /\ interval # "none"
    /\ loadStatus[n] = "loading"
    /\ loadStatus' = [loadStatus EXCEPT ![n] = "failed"]
    /\ loggedErrors' = loggedErrors \cup {n}
    /\ UNCHANGED <<cacheKeys, gameObjects, placedFolderImages, imageCupObj,
                   attempts, interval, folderRest>>
    /\ ExtraUnchangedBut("folder")

\* scheduleFolderImagePlacement: the immediate placement, and setInterval.
ScheduleFolderImagePlacement ==
    /\ interval = "none"
    /\ LET result ==
             placeAllCachedImagesInGrid(cacheKeys, placedFolderImages,
                                        gameObjects, canvasWidth)
       IN  /\ gameObjects' = result.objects
           /\ placedFolderImages' = result.placed
    /\ interval' = "armed"
    /\ UNCHANGED <<loadStatus, loggedErrors, cacheKeys, imageCupObj,
                   attempts, folderRest>>
    /\ ExtraUnchangedBut("folder")

\* One tick of the interval: the placement, the cup once its image is
\* cached, clearInterval at the last attempt.
IntervalTick ==
    /\ interval = "armed"
    /\ attempts' = attempts + 1
    /\ LET result ==
             placeAllCachedImagesInGrid(cacheKeys, placedFolderImages,
                                        gameObjects, canvasWidth)
           cup == ~imageCupObj /\ "cup" \in imageCacheKeys
       IN  /\ gameObjects' =
                IF cup
                THEN Append(result.objects,
                            createImageCupAt(cupPosition[1], cupPosition[2],
                                             FALSE))
                ELSE result.objects
           /\ placedFolderImages' =
                IF cup THEN result.placed \cup {"cup"} ELSE result.placed
           /\ imageCupObj' = (imageCupObj \/ cup)
    /\ interval' = IF attempts' >= maxAttempts THEN "cleared" ELSE "armed"
    /\ UNCHANGED <<loadStatus, loggedErrors, cacheKeys, folderRest>>
    /\ ExtraUnchangedBut("folder")

NextFolder ==
    \/ \E n \in folderImages : FolderImageLoaded(n)
    \/ \E n \in folderImages : FolderImageFailed(n)
    \/ ScheduleFolderImagePlacement
    \/ IntervalTick

SpecFolder == InitFolder /\ [][NextFolder]_vars

(***************************************************************************)
(* Claims about keyWhiteToAlpha, checked under SpecKey.                    *)
(***************************************************************************)
KeyDone == imageCache # NoCanvas
KeyTol == clampTolerance(tolerance)
KeyPixels == DOMAIN image.data

\* Pixel i was cleared by the first loop.
ClearedByPass(i) == makeTransparent(image.data[i], KeyTol, bgColor(image))

\* C1: keyWhiteToAlpha returns a canvas of the input's width and height in
\* which every pixel keeps its R, G and B and has the input's alpha or 0.
C1_OnlyAlphaLowered ==
    KeyDone =>
        /\ imageCache.w = image.w
        /\ imageCache.h = image.h
        /\ DOMAIN imageCache.data = KeyPixels
        /\ \A i \in KeyPixels :
              /\ imageCache.data[i].r = image.data[i].r
              /\ imageCache.data[i].g = image.data[i].g
              /\ imageCache.data[i].b = image.data[i].b
              /\ imageCache.data[i].a \in {image.data[i].a, 0}

\* A keyed image in which one opaque pixel was cleared and another kept.
C1_Witness ==
    /\ KeyDone
    /\ \E i, j \in KeyPixels :
          /\ image.data[i].a = 255 /\ imageCache.data[i].a = 0
          /\ image.data[j].a = 255 /\ imageCache.data[j].a = 255

UniformImage == \A i, j \in KeyPixels : image.data[i] = image.data[j]

\* C2: an image whose pixels all have one colour (pure white or any other)
\* is keyed, at every tolerance, to a canvas of the same size whose pixels
\* all have alpha 0.
C2_UniformAllTransparent ==
    (KeyDone /\ UniformImage) =>
        /\ imageCache.w = image.w
        /\ imageCache.h = image.h
        /\ \A i \in KeyPixels : imageCache.data[i].a = 0

\* A uniform opaque red image of at least 4 pixels keyed at tolerance 0.
C2_Witness ==
    /\ KeyDone /\ UniformImage
    /\ image.data[0] = Red
    /\ image.w * image.h >= 4
    /\ tolerance = 0

\* Background-like after the first loop, stated from the three tests.
BackgroundLikePixels ==
    LET bg == bgColor(image)
        ct == colorTol(KeyTol)
    IN  { i \in KeyPixels :
            LET p == image.data[i]
            IN  \/ p.a = 0
                \/ ClearedByPass(i)
                \/ (p.r + p.g + p.b > 720
                      /\ Max3(p.r, p.g, p.b) - Min3(p.r, p.g, p.b) < 25)
                \/ dist2(p, bg) < ct * ct }

BorderPixels ==
    { i \in KeyPixels :
        \/ (i % image.w) = 0 \/ (i % image.w) = image.w - 1
        \/ (i \div image.w) = 0 \/ (i \div image.w) = image.h - 1 }

\* Pixels i and j share an edge.
Adjacent4(i, j) ==
    Abs((i % image.w) - (j % image.w))
        + Abs((i \div image.w) - (j \div image.w)) = 1

RECURSIVE Grow(_, _)
Grow(S, within) ==
    LET N == S \cup { j \in within : \E i \in S : Adjacent4(i, j) }
    IN  IF N = S THEN S ELSE Grow(N, within)

\* The background-like pixels joined to a border pixel by a 4-connected path
\* of background-like pixels.
JoinedToBorder ==
    Grow(BorderPixels \cap BackgroundLikePixels, BackgroundLikePixels)

\* C3 as claimed: a pixel the first loop did not clear ends with alpha 0
\* exactly when it is background-like and joined to the border.
C3_Original ==
    KeyDone =>
        \A i \in KeyPixels :
            ~ClearedByPass(i) =>
                (imageCache.data[i].a = 0 <=> i \in JoinedToBorder)

\* C3 amended: a pixel the first loop did not clear and whose input alpha is
\* not 0 ends with alpha 0 exactly when it is background-like and joined to
\* the border by a 4-connected background-like path; a pixel not so joined
\* keeps the alpha the first loop left it.
C3_FloodFill ==
    KeyDone =>
        /\ \A i \in KeyPixels :
              (~ClearedByPass(i) /\ image.data[i].a # 0) =>
                  (imageCache.data[i].a = 0 <=> i \in JoinedToBorder)
        /\ \A i \in KeyPixels \ JoinedToBorder :
              imageCache.data[i].a =
                  IF ClearedByPass(i) THEN 0 ELSE image.data[i].a

\* An interior opaque pixel erased through the border, and an enclosed opaque
\* background-like pixel kept, in one keyed image.
C3_Witness ==
    /\ KeyDone
    /\ \E i \in JoinedToBorder \ BorderPixels :
          /\ ~ClearedByPass(i) /\ image.data[i].a = 255
          /\ imageCache.data[i].a = 0
    /\ \E j \in BackgroundLikePixels \ JoinedToBorder :
          /\ ~ClearedByPass(j) /\ image.data[j].a = 255
          /\ imageCache.data[j].a = 255

(***************************************************************************)
(* Claims about createAccurateImageBody, checked under SpecGrid. What a    *)
(* claim expects is computed here from the sprite's pixels, not from the   *)
(* operators of the model.                                                 *)
(***************************************************************************)
Built == lastCollisionGrid # NoGrid
IsCompound == Built /\ body.kind = "compound"

SpriteAlpha(x, y) == sprite.data[y * sprite.w + x].a
SolidPixels ==
    { p \in (0..(sprite.w - 1)) \X (0..(sprite.h - 1)) :
        SpriteAlpha(p[1], p[2]) > 128 }

\* The grid cells, rows from the top, each from the left.
CellCols == (sprite.w + 3) \div 4
CellRows == (sprite.h + 3) \div 4
RowMajorCells ==
    [k \in 1..(CellCols * CellRows) |->
        <<4 * ((k - 1) % CellCols), 4 * ((k - 1) \div CellCols)>>]
CellOrigins == { RowMajorCells[k] : k \in DOMAIN RowMajorCells }

CellPixels(c) ==
    (c[1]..Min(c[1] + 3, sprite.w - 1)) \X (c[2]..Min(c[2] + 3, sprite.h - 1))
CellArea(c) == Cardinality(CellPixels(c))
CellCount(c) ==
    Cardinality({ p \in CellPixels(c) : SpriteAlpha(p[1], p[2]) > 128 })

\* At least one solid pixel and more than 0.70 of the cell solid.
Qualifies(c) == CellCount(c) >= 1 /\ 10 * CellCount(c) > 7 * CellArea(c)
QualifyingCells == SelectSeq(RowMajorCells, Qualifies)

\* A cell's primitive centre (gx - W/2 + 2, gy - H/2 + 2) in the body's unit.
ExpectedCentre(c) ==
    [x |-> (2 * c[1] - sprite.w + 4) * (body.unit \div 2),
     y |-> (2 * c[2] - sprite.h + 4) * (body.unit \div 2)]

\* A part's position translated back by renderOffset.
PartOrigin(p) ==
    [x |-> p.x + body.renderOffset.x, y |-> p.y + body.renderOffset.y]
PartOrigins ==
    IF IsCompound
    THEN { PartOrigin(body.parts[k]) : k \in DOMAIN body.parts }
    ELSE {}

\* C4: a cell becomes a primitive exactly when it holds a solid pixel and
\* more than 0.70 of it is solid (12 of the 16 pixels of a full cell); every
\* cell is recorded once with its gx, gy, ratio and inclusion flag.
C4_CellInclusion ==
    Built =>
        LET cells == lastCollisionGrid.cells
        IN  /\ Len(cells) = Len(RowMajorCells)
            /\ \A k \in DOMAIN cells :
                  LET c == RowMajorCells[k]
                  IN  /\ cells[k].gx = c[1] /\ cells[k].gy = c[2]
                      /\ cells[k].ratio.num * CellArea(c)
                            = CellCount(c) * cells[k].ratio.den
                      /\ cells[k].include <=> Qualifies(c)
                      /\ CellArea(c) = 16 =>
                            (cells[k].include <=> CellCount(c) >= 12)
            /\ Cardinality(PartOrigins) = Len(QualifyingCells)
            /\ IsCompound => Len(body.parts) = Len(QualifyingCells)
            /\ PartOrigins =
                  { ExpectedCentre(QualifyingCells[k]) :
                      k \in DOMAIN QualifyingCells }
            /\ IsCompound =>
                  \A k \in DOMAIN body.parts :
                      body.parts[k].w = 4 /\ body.parts[k].h = 4

\* A build with a full cell of 12 solid pixels kept and one of 11 dropped.
C4_Witness ==
    /\ IsCompound
    /\ \E c, d \in CellOrigins :
          /\ CellArea(c) = 16 /\ CellCount(c) = 12
          /\ ExpectedCentre(c) \in PartOrigins
          /\ CellArea(d) = 16 /\ CellCount(d) = 11
          /\ ExpectedCentre(d) \notin PartOrigins

FullyOpaque ==
    \A p \in (0..(sprite.w - 1)) \X (0..(sprite.h - 1)) :
        SpriteAlpha(p[1], p[2]) = 255

\* The pixels a part covers, its position translated back by renderOffset
\* and moved to the sprite's corner: (2 * x / unit + W) / 2 - 2 is its left
\* edge.
PartPixels(p) ==
    LET o == PartOrigin(p)
        left == ((2 * o.x) \div body.unit + sprite.w - 4) \div 2
        top == ((2 * o.y) \div body.unit + sprite.h - 4) \div 2
    IN  IF (2 * o.x) % body.unit = 0 /\ (2 * o.y) % body.unit = 0
           /\ ((2 * o.x) \div body.unit + sprite.w) % 2 = 0
           /\ ((2 * o.y) \div body.unit + sprite.h) % 2 = 0
        THEN (left..(left + 3)) \X (top..(top + 3))
        ELSE {<<-1, -1>>}

\* C5: a fully opaque sprite whose width and height are multiples of 4 gets
\* every cell included, (W/4) * (H/4) primitives, and primitives that cover
\* exactly the sprite rectangle.
C5_OpaqueFullCover ==
    (Built /\ FullyOpaque /\ sprite.w % 4 = 0 /\ sprite.h % 4 = 0) =>
        /\ \A k \in DOMAIN lastCollisionGrid.cells :
              lastCollisionGrid.cells[k].include
        /\ IsCompound
        /\ Len(body.parts) = (sprite.w \div 4) * (sprite.h \div 4)
        /\ UNION { PartPixels(body.parts[k]) : k \in DOMAIN body.parts }
              = (0..(sprite.w - 1)) \X (0..(sprite.h - 1))

\* A fully opaque sprite of two cells, built.
C5_Witness ==
    /\ Built /\ FullyOpaque
    /\ sprite.w = 8 /\ sprite.h = 4
    /\ IsCompound /\ Len(body.parts) = 2

\* Bounding boxes in half pixels, sprite-centred: of the solid pixels, and of
\* the primitives translated back by renderOffset.
SetMin(S) == CHOOSE m \in S : \A n \in S : m <= n
SetMax(S) == CHOOSE m \in S : \A n \in S : m >= n
SolidBox ==
    [left |-> 2 * SetMin({ p[1] : p \in SolidPixels }) - sprite.w,
     right |-> 2 * (SetMax({ p[1] : p \in SolidPixels }) + 1) - sprite.w,
     top |-> 2 * SetMin({ p[2] : p \in SolidPixels }) - sprite.h,
     bottom |-> 2 * (SetMax({ p[2] : p \in SolidPixels }) + 1) - sprite.h]
PrimitiveBox ==
    LET xs == { (2 * o.x) \div body.unit : o \in PartOrigins }
        ys == { (2 * o.y) \div body.unit : o \in PartOrigins }
    IN  [left |-> SetMin(xs) - 4, right |-> SetMax(xs) + 4,
         top |-> SetMin(ys) - 4, bottom |-> SetMax(ys) + 4]

\* C6 as claimed: the primitives' box, translated back by renderOffset, is
\* within one cell size (4 px, 8 half pixels) of the solid pixels' box on
\* every side.
C6_Original ==
    IsCompound =>
        /\ Abs(PrimitiveBox.left - SolidBox.left) <= 8
        /\ Abs(PrimitiveBox.right - SolidBox.right) <= 8
        /\ Abs(PrimitiveBox.top - SolidBox.top) <= 8
        /\ Abs(PrimitiveBox.bottom - SolidBox.bottom) <= 8

EverySolidCellQualifies ==
    \A c \in CellOrigins : CellCount(c) >= 1 => Qualifies(c)

\* C6 amended: the primitives' box never reaches one cell size (4 px) or more
\* beyond the solid pixels' box on any side, and when every cell that holds a
\* solid pixel is included the two boxes are within one cell size of each
\* other on every side.
C6_BoxWithinCell ==
    IsCompound =>
        /\ PrimitiveBox.left > SolidBox.left - 8
        /\ PrimitiveBox.right < SolidBox.right + 8
        /\ PrimitiveBox.top > SolidBox.top - 8
        /\ PrimitiveBox.bottom < SolidBox.bottom + 8
        /\ EverySolidCellQualifies =>
              /\ Abs(PrimitiveBox.left - SolidBox.left) <= 8
              /\ Abs(PrimitiveBox.right - SolidBox.right) <= 8
              /\ Abs(PrimitiveBox.top - SolidBox.top) <= 8
              /\ Abs(PrimitiveBox.bottom - SolidBox.bottom) <= 8

\* A compound body whose box reaches 3 px beyond the solid pixels on the
\* right (a 1 px wide edge cell) although every solid cell is included.
C6_Witness ==
    /\ IsCompound
    /\ EverySolidCellQualifies
    /\ Len(body.parts) >= 2
    /\ PrimitiveBox.right = SolidBox.right + 6
    /\ body.renderOffset.x # 0

\* C7: a compound body's position is (0, 0), its renderOffset is the mean of
\* the primitives' sprite-centred positions, and each primitive's final
\* position plus renderOffset is its original position
\* (gx - W/2 + 2, gy - H/2 + 2).
C7_CentredAndAligned ==
    IsCompound =>
        LET n == Len(QualifyingCells)
            centres == [k \in 1..n |-> ExpectedCentre(QualifyingCells[k])]
        IN  /\ n >= 1
            /\ body.position = [x |-> 0, y |-> 0]
            /\ body.renderOffset.x * n = SumX(centres)
            /\ body.renderOffset.y * n = SumY(centres)
            /\ Len(body.parts) = n
            /\ \A k \in 1..n : PartOrigin(body.parts[k]) = centres[k]

\* A compound body of three primitives in an L, whose mean is no multiple of
\* half a pixel.
C7_Witness ==
    /\ IsCompound
    /\ Len(body.parts) = 3
    /\ (2 * body.renderOffset.x) % body.unit # 0
    /\ (2 * body.renderOffset.y) % body.unit # 0

\* C8: when no cell qualifies the build ends with the bounding-box rectangle
\* of the sprite's width and height, and otherwise with a compound body of at
\* least one primitive.
C8_FallbackRectangle ==
    Built =>
        IF Len(QualifyingCells) = 0
        THEN /\ body.kind = "rectangle"
             /\ body.width = sprite.w /\ body.height = sprite.h
             /\ body.position = [x |-> 0, y |-> 0]
        ELSE body.kind = "compound" /\ Len(body.parts) >= 1

\* A fully transparent black sprite of more than one cell built under forced
\* 'rgb'.
C8_Witness ==
    /\ Built
    /\ ~lastCollisionGrid.useAlpha /\ forceCollisionMode = "rgb"
    /\ \A i \in DOMAIN sprite.data : sprite.data[i] = Clear
    /\ sprite.w > 4
    /\ body.kind = "rectangle"

\* C9 as claimed: a build under forced 'rgb' classifies by the RGB test: on a
\* sprite of opaque white and opaque red pixels the solid pixels of every
\* cell are its red ones.
C9_ModeSelectsTest ==
    (Built /\ ~lastCollisionGrid.useAlpha
       /\ \A i \in DOMAIN sprite.data : sprite.data[i] \in {White, Red}) =>
        \A k \in DOMAIN lastCollisionGrid.cells :
            LET c == RowMajorCells[k]
                red == { p \in CellPixels(c) :
                           sprite.data[p[2] * sprite.w + p[1]] = Red }
            IN  lastCollisionGrid.cells[k].ratio.num * CellArea(c)
                    = Cardinality(red) * lastCollisionGrid.cells[k].ratio.den

(***************************************************************************)
(* Claim about isNonWhitePixel, checked under SpecSolid.                   *)
(***************************************************************************)
ProbeInBounds ==
    /\ probe.x >= 0 /\ probe.x < sprite.w
    /\ probe.y >= 0 /\ probe.y < sprite.h

TraceDone == traced.called

\* The first solid pixel in row-major order.
StartPixel ==
    CHOOSE p \in SolidPixels :
        \A q \in SolidPixels : p[2] < q[2] \/ (p[2] = q[2] /\ p[1] <= q[1])

Neighbours8(p) ==
    { q \in SolidPixels :
        q # p /\ Abs(q[1] - p[1]) <= 1 /\ Abs(q[2] - p[2]) <= 1 }

RECURSIVE Grow8(_)
Grow8(S) ==
    LET T == S \cup UNION { Neighbours8(p) : p \in S }
    IN  IF T = S THEN S ELSE Grow8(T)

\* The solid pixels form one 8-connected region.
SingleRegion == SolidPixels # {} /\ Grow8({StartPixel}) = SolidPixels

\* The solid pixels form one filled axis-aligned rectangle.
IsFilledRectangle ==
    /\ SolidPixels # {}
    /\ SolidPixels =
          (SetMin({ p[1] : p \in SolidPixels })
              ..SetMax({ p[1] : p \in SolidPixels }))
          \X (SetMin({ p[2] : p \in SolidPixels })
              ..SetMax({ p[2] : p \in SolidPixels }))
RectWidth ==
    SetMax({ p[1] : p \in SolidPixels })
        - SetMin({ p[1] : p \in SolidPixels }) + 1
RectHeight ==
    SetMax({ p[2] : p \in SolidPixels })
        - SetMin({ p[2] : p \in SolidPixels }) + 1

\* Twice the signed area of the polygon vs, by the shoelace formula; with
\* vertices in half pixels it is 8 times the area in square pixels.
RECURSIVE ShoelaceFrom(_, _)
ShoelaceFrom(vs, k) ==
    IF k > Len(vs) THEN 0
    ELSE LET a == vs[k]
             b == vs[IF k = Len(vs) THEN 1 ELSE k + 1]
         IN  a.x * b.y - b.x * a.y + ShoelaceFrom(vs, k + 1)
PolygonArea8(vs) == Abs(ShoelaceFrom(vs, 1))

\* C11 as claimed: tracing a filled rectangle gives exactly 4 vertices whose
\* polygon has the rectangle's area, to within the ring of half pixels
\* between the pixel centres and the pixel edges.
C11_RectangleFourVertices ==
    (TraceDone /\ IsFilledRectangle) =>
        /\ traced.returns
        /\ Len(traced.vertices) = 4
        /\ PolygonArea8(traced.vertices)
              >= 8 * (RectWidth - 1) * (RectHeight - 1)
        /\ PolygonArea8(traced.vertices) <= 8 * RectWidth * RectHeight

\* C12 as claimed: the vertex list returned for any canvas has at least 3
\* vertices.
C12_AtLeastThreeVertices ==
    TraceDone => traced.returns /\ Len(traced.vertices) >= 3

\* out is path with some points left out: an increasing choice of indices
\* of path spells it.
IsSubsequence(out, in) ==
    \E S \in SUBSET (1..Len(in)) :
        /\ Cardinality(S) = Len(out)
        /\ \A k \in 1..Len(out) :
              \E i \in S :
                  /\ Cardinality({ j \in S : j < i }) = k - 1
                  /\ in[i] = out[k]

SimplifyGuarantees ==
    /\ Len(reduced.points) <= Len(path)
    /\ IsSubsequence(reduced.points, path)
    /\ Len(path) >= 1 =>
          /\ Len(reduced.points) >= 1
          /\ reduced.points[1] = path[1]
          /\ reduced.points[Len(reduced.points)] = path[Len(path)]

StartShapeAtMostTwo ==
    LET N == Neighbours8(StartPixel)
    IN  \/ N = {}
        \/ Cardinality(N) = 1 /\ \A n \in N : Neighbours8(n) = {StartPixel}

\* The bounding-box rectangle of the canvas about the centre of the solid
\* pixels' box, in half pixels.
ExpectedBox ==
    LET cx == IF SolidPixels = {} THEN sprite.w - 1
              ELSE SetMin({ p[1] : p \in SolidPixels })
                   + SetMax({ p[1] : p \in SolidPixels })
        cy == IF SolidPixels = {} THEN sprite.h - 1
              ELSE SetMin({ p[2] : p \in SolidPixels })
                   + SetMax({ p[2] : p \in SolidPixels })
    IN  << Pt(-cx, -cy), Pt(2 * sprite.w - cx, -cy),
           Pt(2 * sprite.w - cx, 2 * sprite.h - cy),
           Pt(-cx, 2 * sprite.h - cy) >>

ContourPixels == { <<traced.contour[k].x, traced.contour[k].y>> :
                     k \in DOMAIN traced.contour }

\* C15 as claimed: on a single 8-connected region the contour is made of
\* solid pixels, consecutive points are 8-neighbours, and the contour's
\* bounding box is the region's.
C15_TraceWalksBoundary ==
    (TraceDone /\ SingleRegion) =>
        /\ traced.returns
        /\ ContourPixels \subseteq SolidPixels
        /\ \A k \in 1..(Len(traced.contour) - 1) :
              /\ Abs(traced.contour[k + 1].x - traced.contour[k].x) <= 1
              /\ Abs(traced.contour[k + 1].y - traced.contour[k].y) <= 1
              /\ traced.contour[k + 1] # traced.contour[k]
        /\ SetMin({ p[1] : p \in ContourPixels })
              = SetMin({ p[1] : p \in SolidPixels })
        /\ SetMax({ p[1] : p \in ContourPixels })
              = SetMax({ p[1] : p \in SolidPixels })
        /\ SetMin({ p[2] : p \in ContourPixels })
              = SetMin({ p[2] : p \in SolidPixels })
        /\ SetMax({ p[2] : p \in ContourPixels })
              = SetMax({ p[2] : p \in SolidPixels })
(***************************************************************************)
(* Claims about the scene of src/public/game.js, checked under SpecScene   *)
(* and, where something must eventually happen, under SpecSceneLive.       *)
(***************************************************************************)
\* A step in which marbleInCup is called.
CupStep == cupCalls' = cupCalls + 1

\* The fields marbleInCup sets on the first cup contact.
AfterFirstCup ==
    game.score = 10 /\ game.gameOver /\ game.targetMarbleCount = 0

\* C16: the first call of marbleInCup, made in phase "single", moves the
\* phase to "final", adds 10 to the score, sets gameOver and removes the
\* scoring marble from the marble list; nothing else changes the phase, so
\* this happens once; every call made in phase "final" leaves score, phase,
\* gameOver, targetMarbleCount and the marble list as they were; the phase
\* never returns to "single".
C16_CupScoresOnce ==
    /\ [](game.phase \in {"single", "final"})
    /\ [](game.phase = "single" => game.score = 0 /\ ~game.gameOver)
    /\ [](game.phase = "final" => AfterFirstCup)
    /\ [][(CupStep /\ game.phase = "single") =>
            /\ game'.phase = "final"
            /\ game'.score = game.score + 10
            /\ game'.gameOver
            /\ \E m \in 1..MaxMarbles :
                 /\ CupSensorContact(m)
                 /\ m \notin game'.marbles
                 /\ game'.marbles = game.marbles \ {m}]_vars
    /\ [][(CupStep /\ game.phase = "final") => game' = game]_vars
    /\ [][game'.phase # game.phase => CupStep /\ game.phase = "single"]_vars
    /\ [][game.phase = "final" => game'.phase = "final"]_vars

\* The cup was entered, and marbleInCup was called again afterwards.
C16_Witness ==
    game.phase = "final" /\ cupCalls >= 2 /\ game.score = 10
\* C17: every polling loop gives up: in every execution, one in which an
\* image failed to load included, the time comes after which no polling
\* timer is armed any more.
C17_PollingStops == <>[](timers = {})

SomeImageFailed == \E n \in imagesToLoad : loadStatus[n] = "failed"

\* C18: a failed load is logged and its sprite is never created; once an
\* image has failed, every image that is cached still gets its sprite placed
\* and the first marble is still spawned.
C18_FailureIsLocal ==
    /\ [](\A n \in imagesToLoad :
            loadStatus[n] = "failed" => n \in loggedErrors /\ ~hasObject(n))
    /\ \A n \in imagesToLoad :
         (SomeImageFailed /\ loadStatus[n] = "cached") ~> hasObject(n)
    /\ SomeImageFailed ~> (nextMarble > 1)
(***************************************************************************)
(* Claims about the body-building paths and the rebuild of src/game.js,    *)
(* checked under SpecBuild.                                                *)
(***************************************************************************)
\* The last object of the scene is the named one, on a rectangle at x, y.
AddedOnRectangle(objects, text, x, y) ==
    /\ objects # <<>>
    /\ objects[Len(objects)].text = text
    /\ objects[Len(objects)].body.shape = "rectangle"
    /\ objects[Len(objects)].body.x = x
    /\ objects[Len(objects)].body.y = y

\* C19: on every path that builds an image body, an exception of the body
\* synthesis never leaves the path, and the object is still added, on a
\* rectangle at the requested position (for a rebuild: the object keeps its
\* place in the scene and gets a rectangle at its position).
C19_FailureFallsBack ==
    /\ [](~escaped)
    /\ [][(CreateDefaultBanana(TRUE) /\ "banana" \in imageCacheKeys) =>
            AddedOnRectangle(gameObjects', "banana", 1, 0)]_vars
    /\ [][(CreateRibbonCable(TRUE) /\ "ribbon_cable" \in imageCacheKeys) =>
            AddedOnRectangle(gameObjects', "ribbon_cable", 0, 0)]_vars
    /\ [][\A throwing \in SUBSET gameJsImagesToLoad :
            RebuildAllImageCollisions(throwing) =>
              \A i \in 1..Len(gameObjects) :
                gameObjects[i].text \in throwing =>
                  /\ gameObjects'[i].body.shape = "rectangle"
                  /\ gameObjects'[i].body.x = gameObjects[i].x
                  /\ gameObjects'[i].body.y = gameObjects[i].y]_vars

\* C20: a rebuild leaves the world position and the angle of every body it
\* replaces as they were immediately before it.
C20_RebuildKeepsTransform ==
    [][\A throwing \in SUBSET gameJsImagesToLoad :
         RebuildAllImageCollisions(throwing) =>
           \A i \in 1..Len(gameObjects) :
             /\ gameObjects'[i].body.x = gameObjects[i].body.x
             /\ gameObjects'[i].body.y = gameObjects[i].body.y
             /\ gameObjects'[i].body.angle = gameObjects[i].body.angle]_vars
(***************************************************************************)
(* Marble conservation, checked under SpecScene.                           *)
(***************************************************************************)
\* A step of checkMarblesOffScreen that removes a marble.
OffScreenStep == \E off \in SUBSET (1..MaxMarbles) : CheckMarblesOffScreen(off)

\* C30: in phase "single", once the first marble was spawned, the live
\* marbles and the armed respawn timers together are exactly one, every
\* timer respawns one marble, and no more than targetMarbleCount marbles are
\* in play; a removal in phase "single" arms exactly one timer; once the game
\* is over a removal arms none.
C30_MarbleConservation ==
    /\ [](game.phase = "single" /\ nextMarble > 1 =>
            /\ Cardinality(game.marbles) + Len(respawnTimers) = 1
            /\ \A i \in 1..Len(respawnTimers) : respawnTimers[i] = 1
            /\ Cardinality(game.marbles) <= game.targetMarbleCount)
    /\ [][(OffScreenStep /\ game.phase = "single") =>
            Len(respawnTimers') = Len(respawnTimers) + 1]_vars
    /\ [][(OffScreenStep /\ game.gameOver) =>
            respawnTimers' = respawnTimers]_vars

\* A marble left the screen and its replacement is in play.
C30_Witness ==
    game.phase = "single" /\ nextMarble > 2 /\ Cardinality(game.marbles) = 1
(***************************************************************************)
(* Termination of the contour walk, checked under SpecWalk.                *)
(***************************************************************************)
\* The walk's start is the first solid pixel in row-major order, which is
\* what traceVerticesFromCanvas hands it.
StartsAtFirstSolid ==
    \A p \in SolidPixels :
      walk.startY < p[2] \/ (walk.startY = p[2] /\ walk.startX <= p[1])

\* C27: from every solid start pixel of every raster the do-while loop of
\* mooreNeighborhoodTrace ends: the walk comes back to the start position or
\* finds no solid neighbour; it never cycles without the start.
C27_WalkEnds == walk.called => walk.returns

\* A walk that did not start at the first solid pixel ended after four or
\* more points.
C27_Witness ==
    /\ walk.called
    /\ ~StartsAtFirstSolid
    /\ walk.returns
    /\ Len(walk.contour) >= 4
(***************************************************************************)
(* Claims about the mouse modes, the rebuild command and the ownership of  *)
(* bodies, checked under SpecPlay.                                         *)
(***************************************************************************)
\* C29: after any sequence of mouse and touch events isDragging and
\* isRotating are never both true, and dragTarget is not null while either
\* is true. (handleMouseDown sets one flag and never clears the other, so a
\* mousedown in the drag zone followed, with no mouseup between, by a
\* mousedown outside it leaves both set.)
C29_ModesExclusive ==
    /\ ~(isDragging /\ isRotating)
    /\ (isDragging \/ isRotating) => dragTarget # 0

\* C21: a rebuild resynthesizes the body of every image object in the
\* scene. (rebuildAllImageCollisions skips every object whose kind is
\* neither 'banana' nor 'ribbon_cable'.)
C21_RebuildIsFull == lastRebuild.called => lastRebuild.skipped = {}

\* C22: every object in gameObjects has its body in the world, the body's
\* gameObject points back to the object, no two objects share a body, and
\* the world holds no body of an object that was deleted or rebuilt.
C22_Ownership ==
    /\ \A i \in 1..Len(gameObjects) :
         /\ gameObjects[i].bodyId \in world
         /\ bodyGameObject[gameObjects[i].bodyId] = gameObjects[i].id
    /\ \A i, j \in 1..Len(gameObjects) :
         i # j => gameObjects[i].bodyId # gameObjects[j].bodyId
    /\ world = { gameObjects[i].bodyId : i \in 1..Len(gameObjects) }

\* An object was rebuilt and then dragged, and the first object of the
\* scene was deleted.
C22_Witness ==
    /\ \E i \in 1..Len(gameObjects) :
         /\ gameObjects[i].bodyId # gameObjects[i].id
         /\ gameObjects[i].body.x # gameObjects[i].x
    /\ 1 \notin objectIds(gameObjects)
    /\ lastRebuild.called
(***************************************************************************)
(* Claims about the scene layout, checked under SpecLayout.                *)
(***************************************************************************)
\* C25: when sceneLayout.json is absent or loading it fails at any point,
\* the scene is exactly the default layout with one marble. (The catch
\* block of loadSceneLayout calls createDefaultScene without removing what
\* the loop had already created.)
C25_DefaultOnFailure ==
    (started = "loaded" /\ loadResult = "default")
      => /\ gameObjects = layoutDefaultScene(<<>>, throwingImages)
         /\ Cardinality(game.marbles) = 1

\* The fields the layout document names agree between two objects.
sameLayoutFields(a, b) ==
    /\ a.text = b.text
    /\ a.body.x = b.body.x
    /\ a.body.y = b.body.y
    /\ a.body.angle = b.body.angle
    /\ a.imageScale = b.imageScale
    /\ a.isStatic = b.isStatic
    /\ a.isBoing = b.isBoing
    /\ a.isCup = b.isCup
    /\ a.isWastebasket = b.isWastebasket

\* C26: the scene loadSceneLayout makes of a document that saveSceneLayout
\* wrote has, object by object, the name, position, rotation, scale, static
\* flag and role flags of the scene that was saved.
C26_RoundTrip ==
    (started = "loaded" /\ sceneLayout.written)
      => /\ Len(gameObjects) = Len(savedScene)
         /\ \A i \in 1..Len(savedScene) :
              sameLayoutFields(savedScene[i], gameObjects[i])
(***************************************************************************)
(* Claims about createGeneratedObject, checked under SpecGenerate.         *)
(***************************************************************************)
\* C23: a call for a description with no URL and no keyword whose image
\* API failed (or whose image failed to load) has added exactly one object:
\* a static text object showing the first 10 characters of the description;
\* nothing was thrown to generateObject.
C23_FallbackText ==
    \A c \in 1..Len(calls) :
        (calls[c].stage = "done" /\ calls[c].kind = "plain"
           /\ calls[c].failed)
          => /\ Len(calls[c].added) = 1
             /\ ~calls[c].threw
             /\ LET obj == gameObjects[calls[c].added[1]]
                IN  /\ obj.isText
                    /\ obj.isStatic
                    /\ Len(obj.text) <= textLimit
                    /\ \A i \in 1..Len(calls[c].description) :
                         i <= textLimit
                           => /\ i <= Len(obj.text)
                              /\ obj.text[i] = calls[c].description[i]

\* The call for a description of more than 10 characters failed, and the
\* text object it added shows 10 characters.
C23_Witness ==
    \E c \in 1..Len(calls) :
        /\ calls[c].stage = "done"
        /\ calls[c].kind = "plain"
        /\ calls[c].failed
        /\ Len(calls[c].description) > textLimit
        /\ Len(calls[c].added) = 1
        /\ Len(gameObjects[calls[c].added[1]].text) = textLimit
(***************************************************************************)
(* Claims about /api/generate-image, checked under SpecServer.             *)
(***************************************************************************)
\* The model answered without an image: parts without inlineData, no
\* parts, no candidates, data without b64_json and url.
returnsNoImage(outcome) ==
    outcome \in {"textOnly", "noParts", "noCandidates", "noImage"}

\* C24: 400 without an API key and 400 for a prompt that is missing, empty
\* or not a string, the model never called; 502 when the model returns no
\* image, and otherwise 200 with an imageUrl; the serverless handlers
\* answer 200 to OPTIONS and 405 to every other method that is not POST
\* before any of it. (A model call that throws is answered with the
\* error's status or 500, and so is a Gemini response without candidates.)
C24_StatusTable ==
    response.called
      => IF request.handler # "server.js" /\ request.method = "OPTIONS"
         THEN response.status = 200 /\ response.modelCalls = 0
         ELSE IF request.handler # "server.js" /\ request.method # "POST"
         THEN response.status = 405 /\ response.modelCalls = 0
         ELSE IF ~request.apiKey \/ promptRejected(request.prompt)
         THEN response.status = 400 /\ response.modelCalls = 0
         ELSE IF returnsNoImage(request.model[Len(request.model)])
         THEN response.status = 502
         ELSE response.status = 200 /\ response.imageUrl
(***************************************************************************)
(* Claims about the folder-image placement, checked under SpecFolder.      *)
(***************************************************************************)
\* C28: each cached image name has at most one scene object, there is at
\* most one cup, and no two placed images have the same grid position.
\* (idx starts at 0 in every call of placeAllCachedImagesInGrid and counts
\* only the images that call places, so an image placed by a later call
\* gets the cell of the first image of an earlier call.)
C28_SafeToRepeat ==
    \A i, j \in 1..Len(gameObjects) :
        i # j
          => /\ gameObjects[i].text # gameObjects[j].text
             /\ <<gameObjects[i].x, gameObjects[i].y>>
                  # <<gameObjects[j].x, gameObjects[j].y>>

====
